---- MODULE Spec2Model ----
(***************************************************************************)
(* LINE backup bot: webhook media handler with its duplicate-delivery      *)
(* gate (handlers.py), the WebDAV upload with retries (nextcloud.py), the  *)
(* admin login rate limiter (auth.py) and the persisted seen-key stores    *)
(* (processed_ids.py, hash_store.py).                                      *)
(*                                                                         *)
(* Each subsystem has its own specification over the shared variables:     *)
(*   Spec        the media handler run by concurrent workers               *)
(*   SpecUpload  one upload_to_nextcloud call after another                *)
(*   SpecAuth    login attempts of several clients against the limiter     *)
(*   SpecStore   contains/add on the two persisted seen-key stores         *)
(***************************************************************************)
EXTENDS Integers, Sequences, FiniteSets, TLC

None == "None"

(***************************************************************************)
(* Domains and bounds.                                                     *)
(***************************************************************************)
Workers == {"w1", "w2"}
MsgIds  == {"m1", "m2", "m3"}
Users   == {"U1", None}
Digests == {"h1", "h2", "h3"}

\* handlers._MAX_PROCESSED_IDS is 10000 (handlers.py:30); scaled so that the
\* set fills up with the message IDs above.
_MAX_PROCESSED_IDS == 2

\* Sizes of a downloaded content, in MB: empty, exactly the limit used
\* below, over it.
Sizes == {0, 2, 3}

Clients == {"1.2.3.4", "5.6.7.8"}
Keys    == {"k1", "k2", "k3"}

\* processed_ids._MAX_IDS is 10000 (processed_ids.py:15) and SAVE_EVERY_N is 50
\* (processed_ids.py:16); scaled likewise.
_MAX_IDS == 2
SAVE_EVERY_N == 2
SAVE_INTERVAL_SEC == 60

\* hash_store._MAX_HASHES is 50000 (hash_store.py:13); scaled likewise.
_MAX_HASHES == 2

VARIABLES
    \* ---- handlers.py ----
    _processed_message_ids, \* set of message IDs already seen
    pc,                     \* worker -> position in _handle_media_message
    event,                  \* worker -> [id, user] of the delivery it handles
    dup,                    \* worker -> history: the ID was in the seen-ID set
                            \*   when the delivery arrived
    eff,                    \* worker -> [dl, up, msg, stat, hash, hit]: content
                            \*   downloads, upload calls, reply/push calls, stats
                            \*   records, hash-store calls and hash-store lookups
                            \*   of a digest the store held, of this handling
    tmp,                    \* worker -> [exists, size, digest] of its temp file
    outcome,                \* worker -> how the last handling ended
    cleared,                \* _processed_message_ids.clear() has run
    config,                 \* [replies, hashing, max_mb] (config.py)
    \* ---- hash_store.py ----
    _hashes,                \* in-memory set of content digests
    hashes_loaded,          \* hash_store._loaded
    hashes_file,            \* the persisted list: Missing, Corrupt or Holding
    hashes_order,           \* history: digests in order of insertion
    \* ---- processed_ids.py ----
    _ids,                   \* in-memory set of message IDs
    ids_loaded,             \* processed_ids._loaded
    _dirty,                 \* adds since the last save
    unsaved_since,          \* history: when the oldest ID the file lacks was added, -1 if none
    ids_saved,              \* history: the IDs the last _save of the program wrote
    ids_saved_earlier,      \* history: that _save was made before the last restart
    _last_save_at,          \* time of the last save (or of the load)
    ids_file,               \* the persisted list: Missing, Corrupt or Holding
    \* ---- nextcloud.py: one upload_to_nextcloud call ----
    up_pc,                  \* "idle", "request", "returned" or "raised"
    attempt,                \* loop variable of `for attempt in range(3)`
    part,                   \* next request of the attempt: 1..4 MKCOL, 5 PUT
    last_err,               \* last_err
    up_result,              \* what the call returned or raised
    err_log,                \* history: the error that ended each attempt
    req_log,                \* history: number of requests sent by the call
    sleep_log,              \* history: sleeps made, in tenths of a second
    sent,                   \* history: the requests of the current attempt, each
                            \*   [part, ok] with ok its answer being accepted
    \* ---- auth.py ----
    _login_rate_limit,      \* ip -> [failed, locked_until], for some ips
    rate_limit_loaded,      \* auth._loaded
    rate_limit_file,        \* the persisted map: Missing, Corrupt or Holding
    last_login,             \* history: the last login attempt and its answer
    lock_start,             \* history: ip -> when a failure last locked it
    consecutive,            \* history: ip -> failed attempts checked since it
                            \*   last had no record
    \* ---- main.py: the webhook endpoint ----
    cb_pc,                  \* "idle", or "handling" inside handler.handle
    request,                \* [sig]: the X-Line-Signature of the last request:
                            \*   "" (missing), "bad" or "good"
    response,               \* status of the last response, 0 while none is sent
    handled,                \* history: the request's event reached its handler
    credentials,            \* [secret, token]: the LINE credentials are set
    \* ---- stats.py ----
    _last_at,               \* time of the last backup, -1 for None
    _today_count,           \* backups counted for _today_date
    _today_date,            \* the day counted, as a day number; -1 for ""
    stats_file,             \* the persisted stats: Missing or Holding
    call_times,             \* history: the time of every record_backup call
    \* ---- nextcloud.py: the daily notes ----
    notes_remote,           \* the blocks held by notes.txt on the server; <<>> while it does not exist
    notes_returned,         \* history: the blocks of the calls that returned a path
    notes_calls,            \* history: number of append_to_daily_notes calls
    \* ---- source_map.py and the text handler ----
    user_source,            \* user ID -> folder chosen (a function on the users that chose)
    source_state_file,      \* the persisted user_source
    last_command,           \* history: user ID -> text of the user's last selection command, "" if none
    last_upload,            \* history: sender and folder of the last media upload, and
                            \*   the sender's last selection command at that time
    text_eff,               \* history: path taken by the last text handled and the
                            \*   replies and pushes it sent
    \* ---- the admin session ----
    session_renewed_at,     \* history: time of the last response that set the session cookie, -1 if none
    last_admin,             \* history: the last admin request: the cookie presented, whether it
                            \*   was authenticated, and the time since the cookie was last set
    \* ---- names and remote paths ----
    san_name,               \* the text handed to a sanitizer
    san_fn,                 \* which sanitizer was applied to it: "none", "folder", "stem", "title"
    san_once,               \* its result
    san_twice,              \* the result of applying it to its own result
    path_in,                \* the arguments and the time of the last remote path built
    remote_path,            \* the remote path built from them
    \* ---- the client of a login request ----
    last_request,           \* history: the headers and peer of the last login request
    \* ---- environment ----
    now,                    \* time.time(), in seconds
    disk_ok                 \* writes to the data files succeed

uploadVars == <<up_pc, attempt, part, last_err, up_result, err_log, req_log, sleep_log, sent>>
authVars == <<_login_rate_limit, rate_limit_loaded, rate_limit_file, last_login,
              lock_start, consecutive>>
idsVars == <<_ids, ids_loaded, _dirty, _last_save_at, ids_file, unsaved_since,
            ids_saved, ids_saved_earlier>>
webVars == <<cb_pc, request, response, handled, credentials>>
statsVars == <<_last_at, _today_count, _today_date, stats_file, call_times>>
notesVars == <<notes_remote, notes_returned, notes_calls>>
sourceVars == <<user_source, source_state_file, last_command, last_upload, text_eff>>
sessionVars == <<session_renewed_at, last_admin>>
nameVars == <<san_name, san_fn, san_once, san_twice, path_in, remote_path>>
clientVars == <<last_request>>
nonGate == <<uploadVars, authVars, idsVars, webVars, statsVars, now, notesVars, sourceVars, sessionVars, nameVars, clientVars>>
gateVars == <<_processed_message_ids, pc, event, dup, eff, tmp, outcome, cleared, config>>
hashVars == <<_hashes, hashes_loaded, hashes_file, hashes_order>>
vars == <<gateVars, hashVars, idsVars, uploadVars, authVars, webVars, statsVars, now, disk_ok, notesVars, sourceVars, sessionVars, nameVars, clientVars>>

(***************************************************************************)
(* Helpers.                                                                *)
(***************************************************************************)
Range(s) == {s[i] : i \in DOMAIN s}

\* The last n elements of a list: Python's lst[-n:] for n > 0.
LastN(s, n) == IF Len(s) <= n THEN s ELSE SubSeq(s, Len(s) - n + 1, Len(s))

\* Every order in which list(a_set) may enumerate a set.
Orders(S) == {s \in [1..Cardinality(S) -> S] : \A i, j \in DOMAIN s : i # j => s[i] # s[j]}

\* s with x as its newest entry: the insertion history of a set.
Touch(s, x) == Append(SelectSeq(s, LAMBDA y : y # x), x)

\* A persisted JSON file: missing, unreadable ("corrupt"), or holding data.
Missing    == [kind |-> "missing", data |-> <<>>]
Corrupt    == [kind |-> "corrupt", data |-> <<>>]
Holding(x) == [kind |-> "data", data |-> x]

(***************************************************************************)
(* hash_store.py                                                           *)
(***************************************************************************)
\* _load: once per process; a list snapshot is cut to its last _MAX_HASHES
\* entries, a missing or corrupt file leaves the set as it is.
hash_store_load ==
    IF hashes_loaded THEN _hashes
    ELSE IF hashes_file.kind = "data" THEN Range(LastN(hashes_file.data, _MAX_HASHES))
    ELSE _hashes

\* list(_hashes)[-_MAX_HASHES:] : a set has no insertion order, so any
\* _MAX_HASHES of its elements may be the ones kept.
hash_store_trim_at_capacity(S) ==
    IF Cardinality(S) >= _MAX_HASHES
    THEN {T \in SUBSET S : Cardinality(T) = _MAX_HASHES - 1}
    ELSE {S}

hash_store_trim(S) ==
    IF Cardinality(S) > _MAX_HASHES
    THEN {T \in SUBSET S : Cardinality(T) = _MAX_HASHES}
    ELSE {S}

\* _save writing only a set that has reached the capacity
hash_store_save_when_full(S) ==
    IF disk_ok /\ Cardinality(S) = _MAX_HASHES
    THEN {Holding(lst) : lst \in Orders(S)} ELSE {hashes_file}

\* _save: write the list; a failing write is logged and swallowed.
hash_store_save(S) ==
    IF disk_ok THEN {Holding(lst) : lst \in Orders(S)} ELSE {hashes_file}

\* contains(h), with the lazy load it performs.
hash_store_contains_never(h) == FALSE

hash_store_contains(h) ==
    IF ~config.hashing THEN FALSE ELSE h \in hash_store_load

hash_store_contains_effect ==
    IF ~config.hashing THEN UNCHANGED hashVars
    ELSE /\ _hashes' = hash_store_load
         /\ hashes_loaded' = TRUE
         /\ UNCHANGED <<hashes_file, hashes_order>>

\* add(h): load, insert, trim to capacity, save.
hash_store_add(h) ==
    IF ~config.hashing THEN UNCHANGED hashVars
    ELSE /\ hashes_loaded' = TRUE
         /\ _hashes' \in hash_store_trim(hash_store_load \cup {h})
         /\ hashes_file' \in hash_store_save(_hashes')
         /\ hashes_order' = IF h \in hash_store_load THEN hashes_order
                            ELSE Touch(hashes_order, h)

(***************************************************************************)
(* processed_ids.py                                                        *)
(***************************************************************************)
\* _load cutting the snapshot one entry short of the capacity.
processed_ids_load_one_short ==
    IF ids_loaded THEN _ids
    ELSE IF ids_file.kind = "data" THEN Range(LastN(ids_file.data, _MAX_IDS - 1))
    ELSE _ids

\* _load without the _loaded flag: the file is read at every call.
processed_ids_load_every_call ==
    IF ids_file.kind = "data" THEN Range(LastN(ids_file.data, _MAX_IDS)) ELSE _ids

\* _load: the set after the lazy load. A list snapshot is cut to its last
\* _MAX_IDS entries; a missing or corrupt file leaves the set as it is.
processed_ids_load ==
    IF ids_loaded THEN _ids
    ELSE IF ids_file.kind = "data" THEN Range(LastN(ids_file.data, _MAX_IDS))
    ELSE _ids

\* Every branch of _load stamps _last_save_at with the time of the load.
processed_ids_load_stamp == IF ids_loaded THEN _last_save_at ELSE now

\* list(_ids)[-_MAX_IDS:] : a set has no insertion order, so any _MAX_IDS of
\* its elements may be the ones kept.
processed_ids_trim_none(S) == {S}

processed_ids_trim(S) ==
    IF Cardinality(S) > _MAX_IDS
    THEN {T \in SUBSET S : Cardinality(T) = _MAX_IDS}
    ELSE {S}

\* _save_if_needed: the batch is full, or something is unsaved and the
\* interval has passed.
SaveNeededPastBatch(dirty, stamp) ==
    dirty > SAVE_EVERY_N \/ (dirty > 0 /\ now - stamp >= SAVE_INTERVAL_SEC)

SaveNeeded(dirty, stamp) ==
    dirty >= SAVE_EVERY_N \/ (dirty > 0 /\ now - stamp >= SAVE_INTERVAL_SEC)

\* contains(message_id), with the lazy load it performs.
processed_ids_contains(k) ==
    /\ _ids' = processed_ids_load
    /\ _last_save_at' = processed_ids_load_stamp
    /\ ids_loaded' = TRUE
    /\ UNCHANGED <<_dirty, ids_file, unsaved_since, ids_saved, ids_saved_earlier>>
    /\ UNCHANGED <<gateVars, hashVars, uploadVars, authVars, now, disk_ok, webVars, statsVars, notesVars, sourceVars, sessionVars, nameVars, clientVars>>

\* add(message_id): load, insert, trim to capacity, count, save if needed.
processed_ids_add(k) ==
    LET stamp == processed_ids_load_stamp
        dirty == _dirty + 1
    IN
    /\ ids_loaded' = TRUE
    /\ _ids' \in processed_ids_trim(processed_ids_load \cup {k})
    /\ IF SaveNeeded(dirty, stamp) /\ disk_ok
       THEN /\ ids_file' \in {Holding(lst) : lst \in Orders(_ids')}
            /\ _dirty' = 0
            /\ _last_save_at' = now
            /\ unsaved_since' = -1
            /\ ids_saved' = _ids'
            /\ ids_saved_earlier' = FALSE
       ELSE /\ _dirty' = dirty
            /\ _last_save_at' = stamp
            /\ unsaved_since' =
                   IF unsaved_since = -1 /\ k \in _ids' /\ k \notin Range(ids_file.data)
                   THEN now ELSE unsaved_since
            /\ UNCHANGED <<ids_file, ids_saved, ids_saved_earlier>>
    /\ UNCHANGED <<gateVars, hashVars, uploadVars, authVars, now, disk_ok, webVars, statsVars, notesVars, sourceVars, sessionVars, nameVars, clientVars>>

(***************************************************************************)
(* handlers.py: _handle_media_message, one step per statement group. The   *)
(* membership test (line 67), the clear (70-71) and the add (72) are       *)
(* separate statements with no lock around them, so workers interleave     *)
(* between them.                                                           *)
(***************************************************************************)
NoEffect == [dl |-> 0, up |-> 0, msg |-> 0, stat |-> 0, hash |-> 0, hit |-> 0]
NoTmp    == [exists |-> FALSE, size |-> 0, digest |-> None]

Bump(w, field) == eff' = [eff EXCEPT ![w][field] = @ + 1]

\* config.ENABLE_LINE_REPLIES and user_id and line_bot_api
WillPush(w) == config.replies /\ event[w].user # None

Return(w, how) ==
    /\ pc' = [pc EXCEPT ![w] = "idle"]
    /\ outcome' = [outcome EXCEPT ![w] = how]

Goto(w, where) ==
    /\ pc' = [pc EXCEPT ![w] = where]
    /\ UNCHANGED outcome

\* A media event enters _handle_media_message (lines 60-65).
Enter(w, m, u) ==
    /\ pc' = [pc EXCEPT ![w] = "gate"]
    /\ event' = [event EXCEPT ![w] = [id |-> m, user |-> u]]
    /\ dup' = [dup EXCEPT ![w] = (m \in _processed_message_ids)]
    /\ eff' = [eff EXCEPT ![w] = NoEffect]
    /\ tmp' = [tmp EXCEPT ![w] = NoTmp]
    /\ outcome' = [outcome EXCEPT ![w] = "running"]
    /\ UNCHANGED <<_processed_message_ids, cleared, config, hashVars, disk_ok>>

\* The webhook hands a media event to a worker.
Deliver(w, m, u) ==
    /\ pc[w] = "idle"
    /\ Enter(w, m, u)
    /\ UNCHANGED nonGate

\* Lines 67-69: an ID already in the set is dropped.
GateSeenMissed(w) == FALSE

GateSeen(w) == event[w].id \in _processed_message_ids

Gate(w) ==
    /\ pc[w] = "gate"
    /\ IF GateSeen(w) THEN Return(w, "dropped") ELSE Goto(w, "evict")
    /\ UNCHANGED <<_processed_message_ids, event, dup, eff, tmp, cleared, config, hashVars, disk_ok>>
    /\ UNCHANGED nonGate

\* A full set giving up one ID only.
EvictOne(w) ==
    /\ pc[w] = "evict"
    /\ IF Cardinality(_processed_message_ids) >= _MAX_PROCESSED_IDS
       THEN /\ _processed_message_ids' =
                 _processed_message_ids \ {CHOOSE x \in _processed_message_ids : TRUE}
            /\ cleared' = TRUE
       ELSE UNCHANGED <<_processed_message_ids, cleared>>
    /\ Goto(w, "mark")
    /\ UNCHANGED <<event, dup, eff, tmp, config, hashVars, disk_ok>>
    /\ UNCHANGED nonGate

\* Lines 70-71: a full set is emptied.
Evict(w) ==
    /\ pc[w] = "evict"
    /\ IF Cardinality(_processed_message_ids) >= _MAX_PROCESSED_IDS
       THEN /\ _processed_message_ids' = {}
            /\ cleared' = TRUE
       ELSE UNCHANGED <<_processed_message_ids, cleared>>
    /\ Goto(w, "mark")
    /\ UNCHANGED <<event, dup, eff, tmp, config, hashVars, disk_ok>>
    /\ UNCHANGED nonGate

\* Line 72: the ID is marked seen before any processing.
Mark(w) ==
    /\ pc[w] = "mark"
    /\ _processed_message_ids' = _processed_message_ids \cup {event[w].id}
    /\ Goto(w, "reply")
    /\ UNCHANGED <<event, dup, eff, tmp, cleared, config, hashVars, disk_ok>>
    /\ UNCHANGED nonGate

\* Lines 74-75: the acknowledgement reply, outside the try block: a failing
\* reply_message leaves the handler as an exception.
Reply(w) ==
    /\ pc[w] = "reply"
    /\ IF config.replies
       THEN /\ Bump(w, "msg")
            /\ \E ok \in BOOLEAN :
                 IF ok THEN Goto(w, "download") ELSE Return(w, "raised")
       ELSE /\ Goto(w, "download")
            /\ UNCHANGED eff
    /\ UNCHANGED <<_processed_message_ids, event, dup, tmp, cleared, config, hashVars, disk_ok>>
    /\ UNCHANGED nonGate

\* Lines 78-88: fetch the content into a temp file. A failing fetch or a
\* failing write (the temp file is unlinked again, line 85) goes to the
\* except block.
Download(w) ==
    /\ pc[w] = "download"
    /\ Bump(w, "dl")
    /\ \/ /\ Goto(w, "except")
          /\ UNCHANGED tmp
       \/ \E s \in Sizes, h \in Digests :
            /\ tmp' = [tmp EXCEPT ![w] = [exists |-> TRUE, size |-> s, digest |-> h]]
            /\ Goto(w, "size")
    /\ UNCHANGED <<_processed_message_ids, event, dup, cleared, config, hashVars, disk_ok>>
    /\ UNCHANGED nonGate

\* A push_message inside the try block: when it is made and fails, control
\* goes to the except block and the statements after it are skipped.
\* after(w): what follows a push that was made and succeeded, or not made.
TooLargeWhateverTheLimit(w) == tmp[w].size > config.max_mb

TooLarge(w) == config.max_mb > 0 /\ tmp[w].size > config.max_mb

Unlink(w) == tmp' = [tmp EXCEPT ![w].exists = FALSE]

\* Lines 89-105: empty content and content over MAX_FILE_SIZE_MB are dropped.
Size(w) ==
    /\ pc[w] = "size"
    /\ IF tmp[w].size = 0 \/ TooLarge(w)
       THEN IF WillPush(w)
            THEN /\ Bump(w, "msg")
                 /\ \E ok \in BOOLEAN :
                      IF ok
                      THEN Unlink(w) /\ Return(w, IF tmp[w].size = 0 THEN "empty" ELSE "oversize")
                      ELSE UNCHANGED tmp /\ Goto(w, "except")
            ELSE /\ UNCHANGED eff
                 /\ Unlink(w)
                 /\ Return(w, IF tmp[w].size = 0 THEN "empty" ELSE "oversize")
       ELSE /\ Goto(w, "hash")
            /\ UNCHANGED <<eff, tmp>>
    /\ UNCHANGED <<_processed_message_ids, event, dup, cleared, config, hashVars, disk_ok>>
    /\ UNCHANGED nonGate

\* Lines 107-113: with hashing on, content whose digest is known is dropped.
\* file_sha256 reads the temp file and may fail.
Hash(w) ==
    /\ pc[w] = "hash"
    /\ \/ /\ config.hashing
          /\ Goto(w, "except")
          /\ UNCHANGED <<eff, tmp, hashVars>>
       \/ LET held   == tmp[w].digest \in hash_store_load
              looked == IF config.hashing
                        THEN [eff EXCEPT ![w].hash = @ + 1,
                                         ![w].hit = IF held THEN @ + 1 ELSE @]
                        ELSE eff
          IN
          /\ hash_store_contains_effect
          /\ IF hash_store_contains(tmp[w].digest)
             THEN IF WillPush(w)
                  THEN /\ eff' = [looked EXCEPT ![w].msg = @ + 1]
                       /\ \E ok \in BOOLEAN :
                            IF ok
                            THEN Unlink(w) /\ Return(w, "duplicate")
                            ELSE UNCHANGED tmp /\ Goto(w, "except")
                  ELSE /\ eff' = looked
                       /\ Unlink(w)
                       /\ Return(w, "duplicate")
             ELSE /\ Goto(w, "upload")
                  /\ eff' = looked
                  /\ UNCHANGED tmp
    /\ UNCHANGED <<_processed_message_ids, event, dup, cleared, config, disk_ok>>
    /\ UNCHANGED nonGate

\* Lines 115-122: the upload call; the temp file is unlinked whatever it does.
Upload(w) ==
    /\ pc[w] = "upload"
    /\ Bump(w, "up")
    /\ Unlink(w)
    /\ \E ok \in BOOLEAN : Goto(w, IF ok THEN "record" ELSE "except")
    /\ UNCHANGED <<_processed_message_ids, event, dup, cleared, config, hashVars, disk_ok>>
    /\ UNCHANGED nonGate

\* Lines 123-130: record the digest, count the backup, tell the sender.
Record(w) ==
    /\ pc[w] = "record"
    /\ hash_store_add(tmp[w].digest)
    /\ LET added == IF config.hashing THEN [eff EXCEPT ![w].hash = @ + 1] ELSE eff IN
       IF WillPush(w)
       THEN /\ eff' = [added EXCEPT ![w].stat = @ + 1, ![w].msg = @ + 1]
            /\ \E ok \in BOOLEAN :
                 IF ok THEN Return(w, "ok") ELSE Goto(w, "except")
       ELSE /\ eff' = [added EXCEPT ![w].stat = @ + 1]
            /\ Return(w, "ok")
    /\ UNCHANGED <<_processed_message_ids, event, dup, tmp, cleared, config, disk_ok>>
    /\ UNCHANGED nonGate

\* The except block counting the failed item as a backup.
ExceptCounts(w) ==
    /\ pc[w] = "except"
    /\ IF WillPush(w)
       THEN /\ eff' = [eff EXCEPT ![w].msg = @ + 1, ![w].stat = @ + 1]
            /\ \E ok \in BOOLEAN : Return(w, IF ok THEN "failed" ELSE "raised")
       ELSE /\ eff' = [eff EXCEPT ![w].stat = @ + 1]
            /\ Return(w, "failed")
    /\ UNCHANGED <<_processed_message_ids, event, dup, tmp, cleared, config, hashVars, disk_ok>>
    /\ UNCHANGED nonGate

\* The except block taking the ID out of the seen-ID set again.
ExceptForgets(w) ==
    /\ pc[w] = "except"
    /\ _processed_message_ids' = _processed_message_ids \ {event[w].id}
    /\ IF WillPush(w)
       THEN /\ Bump(w, "msg")
            /\ \E ok \in BOOLEAN : Return(w, IF ok THEN "failed" ELSE "raised")
       ELSE /\ UNCHANGED eff
            /\ Return(w, "failed")
    /\ UNCHANGED <<event, dup, tmp, cleared, config, hashVars, disk_ok>>
    /\ UNCHANGED nonGate

\* Lines 131-136: the except block tells the sender; a failing push here
\* leaves the handler as an exception.
Except(w) ==
    /\ pc[w] = "except"
    /\ IF WillPush(w)
       THEN /\ Bump(w, "msg")
            /\ \E ok \in BOOLEAN : Return(w, IF ok THEN "failed" ELSE "raised")
       ELSE /\ UNCHANGED eff
            /\ Return(w, "failed")
    /\ UNCHANGED <<_processed_message_ids, event, dup, tmp, cleared, config, hashVars, disk_ok>>
    /\ UNCHANGED nonGate

(***************************************************************************)
(* auth.py: login rate limiting by client IP. Time is in seconds.          *)
(***************************************************************************)
ADMIN_PASSWORD == "secret"
Passwords == {"secret", "wrong", ""}

LOGIN_MAX_FAILED == 5

\* config.LOGIN_LOCK_SECONDS is 15 * 60 (config.py:50); scaled, together with
\* the step of the clock, so that a lock starts, runs below one minute and
\* expires within the horizon.
LOGIN_LOCK_SECONDS == 90
ClockStep == 45
MaxNow == 270

Max(a, b) == IF a >= b THEN a ELSE b
Min(a, b) == IF a <= b THEN a ELSE b

\* The default of _login_rate_limit.get(ip, {"failed": 0, "locked_until": 0.0})
NoRecord == [failed |-> 0, locked_until |-> 0]
EmptyMap == [ip \in {} |-> NoRecord]

RecordOf(d, ip) == IF ip \in DOMAIN d THEN d[ip] ELSE NoRecord
Pop(d, ip)      == [k \in DOMAIN d \ {ip} |-> d[k]]
Put(d, ip, rec) == [k \in DOMAIN d \cup {ip} |-> IF k = ip THEN rec ELSE d[k]]

NoLogin == [ip |-> None, password |-> "", kind |-> "none", num |-> 0,
            before |-> NoRecord, locked_before |-> FALSE, expired_before |-> FALSE]

\* _load_rate_limit: once per process; of a persisted map only the records
\* still locked at load time are taken over.
load_rate_limit(d, t) ==
    IF rate_limit_loaded \/ rate_limit_file.kind # "data" THEN d
    ELSE LET f == rate_limit_file.data IN
         [ip \in DOMAIN d \cup {k \in DOMAIN f : f[k].locked_until > t} |->
            IF ip \in DOMAIN f /\ f[ip].locked_until > t THEN f[ip] ELSE d[ip]]

\* _save_rate_limit: write the whole map; a failing write is swallowed.
save_rate_limit(d) == IF disk_ok THEN Holding(d) ELSE rate_limit_file

\* get_login_lock_error_html on the loaded map: whether the lock message is
\* returned, and the minutes it states.
lock_check_inclusive(d, ip, t) ==
    LET rec == RecordOf(d, ip) IN
    IF rec.locked_until < t THEN [locked |-> FALSE, mins |-> 0]
    ELSE [locked |-> TRUE, mins |-> Max(1, (rec.locked_until - t) \div 60)]

lock_check_floor(d, ip, t) ==
    LET rec == RecordOf(d, ip) IN
    IF rec.locked_until <= t THEN [locked |-> FALSE, mins |-> 0]
    ELSE [locked |-> TRUE, mins |-> (rec.locked_until - t) \div 60]

get_login_lock_error_html(d, ip, t) ==
    LET rec == RecordOf(d, ip) IN
    IF rec.locked_until <= t THEN [locked |-> FALSE, mins |-> 0]
    ELSE [locked |-> TRUE, mins |-> Max(1, (rec.locked_until - t) \div 60)]

\* check_login_and_update on the loaded map: the new map and the answer.
\* The answer to a wrong password, from the record the attempt counts on.
FailedAttempt(d, ip, rec, t, locks) ==
    LET failed == rec.failed + 1 IN
    IF locks
    THEN [map |-> Put(d, ip, [failed |-> failed, locked_until |-> t + LOGIN_LOCK_SECONDS]),
          kind |-> "lockout", num |-> LOGIN_LOCK_SECONDS \div 60]
    ELSE [map |-> Put(d, ip, [failed |-> failed, locked_until |-> rec.locked_until]),
          kind |-> "wrong", num |-> LOGIN_MAX_FAILED - failed]

Expired(rec, t) == rec.locked_until > 0 /\ rec.locked_until <= t

check_login_keeps_record(d, ip, password, t) ==
    LET got == RecordOf(d, ip)
        rec == IF Expired(got, t) THEN NoRecord ELSE got
    IN
    IF password # "" /\ password = ADMIN_PASSWORD
    THEN [map |-> Put(d, ip, NoRecord), kind |-> "accepted", num |-> 0]
    ELSE FailedAttempt(d, ip, rec, t, rec.failed + 1 >= LOGIN_MAX_FAILED)

check_login_counts_on_stale_record(d, ip, password, t) ==
    LET rec == RecordOf(d, ip) IN
    IF password # "" /\ password = ADMIN_PASSWORD
    THEN [map |-> Pop(d, ip), kind |-> "accepted", num |-> 0]
    ELSE FailedAttempt(d, ip, rec, t, rec.failed + 1 >= LOGIN_MAX_FAILED)

check_login_locks_one_late(d, ip, password, t) ==
    LET got == RecordOf(d, ip)
        rec == IF Expired(got, t) THEN NoRecord ELSE got
    IN
    IF password # "" /\ password = ADMIN_PASSWORD
    THEN [map |-> Pop(d, ip), kind |-> "accepted", num |-> 0]
    ELSE FailedAttempt(d, ip, rec, t, rec.failed + 1 > LOGIN_MAX_FAILED)

check_login_clears_every_record(d, ip, password, t) ==
    LET got == RecordOf(d, ip)
        rec == IF Expired(got, t) THEN NoRecord ELSE got
    IN
    IF password # "" /\ password = ADMIN_PASSWORD
    THEN [map |-> EmptyMap, kind |-> "accepted", num |-> 0]
    ELSE FailedAttempt(d, ip, rec, t, rec.failed + 1 >= LOGIN_MAX_FAILED)

check_login_and_update(d, ip, password, t) ==
    LET got == RecordOf(d, ip)
        \* lines 127-128: an expired lock resets the record
        rec == IF got.locked_until > 0 /\ got.locked_until <= t THEN NoRecord ELSE got
    IN
    IF password # "" /\ password = ADMIN_PASSWORD
    THEN \* lines 129-131: the record is removed
         [map |-> Pop(d, ip), kind |-> "accepted", num |-> 0]
    ELSE \* lines 132-142
         LET failed == rec.failed + 1 IN
         IF failed >= LOGIN_MAX_FAILED
         THEN [map |-> Put(d, ip, [failed |-> failed, locked_until |-> t + LOGIN_LOCK_SECONDS]),
               kind |-> "lockout", num |-> LOGIN_LOCK_SECONDS \div 60]
         ELSE [map |-> Put(d, ip, [failed |-> failed, locked_until |-> rec.locked_until]),
               kind |-> "wrong", num |-> LOGIN_MAX_FAILED - failed]

\* The login endpoint: the lock check first, and the password check only for
\* a client that is not locked.
AdminLogin(ip, password) ==
    LET d      == load_rate_limit(_login_rate_limit, now)
        before == RecordOf(d, ip)
        lock   == get_login_lock_error_html(d, ip, now)
        r      == check_login_and_update(d, ip, password, now)
        about  == [ip |-> ip, password |-> password, before |-> before,
                   locked_before |-> before.locked_until > now,
                   expired_before |-> before.locked_until > 0 /\ before.locked_until <= now]
    IN
    /\ rate_limit_loaded' = TRUE
    /\ IF lock.locked
       THEN /\ _login_rate_limit' = d
            /\ last_login' = about @@ [kind |-> "locked", num |-> lock.mins]
            /\ UNCHANGED <<rate_limit_file, lock_start, consecutive>>
       ELSE /\ _login_rate_limit' = r.map
            /\ rate_limit_file' = save_rate_limit(r.map)
            /\ last_login' = about @@ [kind |-> r.kind, num |-> r.num]
            /\ lock_start' = IF before.locked_until <= now /\ RecordOf(r.map, ip).locked_until > now
                             THEN [lock_start EXCEPT ![ip] = now] ELSE lock_start
            /\ consecutive' = [consecutive EXCEPT ![ip] =
                                 IF r.kind = "accepted" THEN 0
                                 ELSE Min(@ + 1, LOGIN_MAX_FAILED + 1)]
    /\ UNCHANGED <<gateVars, hashVars, idsVars, uploadVars, now, disk_ok, webVars, statsVars, notesVars, sourceVars, sessionVars, nameVars>>

\* The same for a request whose client identity is ip.
AdminLoginPost(ip, password) ==
    /\ AdminLogin(ip, password)
    /\ UNCHANGED clientVars

\* Time passes.
Tick ==
    /\ now + ClockStep <= MaxNow
    /\ now' = now + ClockStep
    /\ UNCHANGED <<gateVars, hashVars, idsVars, uploadVars, authVars, disk_ok, webVars, statsVars, notesVars, sourceVars, sessionVars, nameVars, clientVars>>

InitGate ==
    /\ _processed_message_ids = {}
    /\ pc = [w \in Workers |-> "idle"]
    /\ event = [w \in Workers |-> [id |-> None, user |-> None]]
    /\ dup = [w \in Workers |-> FALSE]
    /\ eff = [w \in Workers |-> NoEffect]
    /\ tmp = [w \in Workers |-> NoTmp]
    /\ outcome = [w \in Workers |-> "none"]
    /\ cleared = FALSE

InitHashes ==
    /\ _hashes = {}
    /\ hashes_loaded = FALSE
    /\ hashes_file = Missing
    /\ hashes_order = <<>>

InitUpload ==
    /\ up_pc = "idle"
    /\ attempt = 0
    /\ part = 1
    /\ last_err = None
    /\ up_result = None
    /\ err_log = <<>>
    /\ req_log = 0
    /\ sleep_log = <<>>
    /\ sent = <<>>

InitIds ==
    /\ _ids = {}
    /\ ids_loaded = FALSE
    /\ _dirty = 0
    /\ _last_save_at = 0
    /\ unsaved_since = -1
    /\ ids_saved = {} /\ ids_saved_earlier = FALSE
    /\ ids_file = Missing

InitStats ==
    /\ _last_at = -1
    /\ _today_count = 0
    /\ _today_date = -1
    /\ stats_file = Missing
    /\ call_times = <<>>

InitNotes ==
    /\ notes_remote = <<>>
    /\ notes_returned = <<>>
    /\ notes_calls = 0

InitSource ==
    /\ user_source = [u \in {} |-> "other"]
    /\ source_state_file = Missing
    /\ last_command = [u \in {"U1", "U2"} |-> ""]
    /\ last_upload = [user |-> None, folder |-> "", command |-> ""]
    /\ text_eff = [path |-> "none", sent |-> 0]

NoPath == [name |-> <<>>, type |-> "none", folder |-> <<>>, title |-> <<>>, ms |-> 0, at |-> 0]

InitNames ==
    /\ san_name = <<>>
    /\ san_fn = "none"
    /\ san_once = <<>>
    /\ san_twice = <<>>
    /\ path_in = NoPath
    /\ remote_path = <<>>

Absent == [present |-> FALSE, value |-> <<>>]
NoRequest == [forwarded |-> Absent, peer |-> Absent, seen |-> FALSE]

InitClient ==
    last_request = NoRequest

InitSession ==
    /\ session_renewed_at = -1
    /\ last_admin = [cookie |-> "", authed |-> FALSE, idle |-> 0]

InitWeb ==
    /\ cb_pc = "idle"
    /\ request = [sig |-> ""]
    /\ response = 0
    /\ handled = FALSE
    /\ credentials = [secret |-> TRUE, token |-> TRUE]

InitAuth ==
    /\ _login_rate_limit = EmptyMap
    /\ rate_limit_loaded = FALSE
    /\ rate_limit_file = Missing
    /\ last_login = NoLogin
    /\ lock_start = [ip \in Clients |-> -1]
    /\ consecutive = [ip \in Clients |-> 0]

DefaultConfig == [replies |-> TRUE, hashing |-> TRUE, max_mb |-> 0]

Init ==
    /\ InitGate
    /\ InitHashes
    /\ InitIds
    /\ InitWeb
    /\ InitStats
    /\ InitUpload
    /\ InitClient
    /\ InitNames
    /\ InitSession
    /\ InitSource
    /\ InitNotes
    /\ InitAuth
    /\ now = 0
    /\ config \in [replies : BOOLEAN, hashing : BOOLEAN, max_mb : {0, 2}]
    /\ disk_ok = TRUE

\* One step of the handler run by worker w.
Step(w) ==
    \/ Gate(w)
    \/ Evict(w)
    \/ Mark(w)
    \/ Reply(w)
    \/ Download(w)
    \/ Size(w)
    \/ Hash(w)
    \/ Upload(w)
    \/ Record(w)
    \/ Except(w)

\* Deliveries handled one after the other by a single worker.
Next ==
    \/ \E m \in MsgIds, u \in Users : Deliver("w1", m, u)
    \/ Step("w1")

Spec == Init /\ [][Next]_vars

\* Deliveries handled concurrently by separate workers.
InitRace ==
    /\ InitGate
    /\ InitHashes
    /\ InitIds
    /\ InitWeb
    /\ InitStats
    /\ InitUpload
    /\ InitClient
    /\ InitNames
    /\ InitSession
    /\ InitSource
    /\ InitNotes
    /\ InitAuth
    /\ now = 0
    /\ config = [replies |-> TRUE, hashing |-> FALSE, max_mb |-> 0]
    /\ disk_ok = TRUE

NextRace ==
    \E w \in Workers :
        \/ \E m \in MsgIds : Deliver(w, m, "U1")
        \/ Step(w)

SpecRace == InitRace /\ [][NextRace]_vars

(***************************************************************************)
(* nextcloud.py: _upload_to_nextcloud_async (main.py upload_to_nextcloud   *)
(* is the same loop with requests instead of aiohttp).                     *)
(***************************************************************************)
UPLOAD_ATTEMPTS == 3

MKCOL_OK == {201, 204, 405}
PUT_OK   == {200, 201, 204}

\* What a request may be answered with: a status code, or 0 for an
\* exception raised by the HTTP client (connection error, timeout).
Answers == {0, 200, 201, 204, 405, 507}

\* The requests of one attempt: MKCOL base, base/source, base/source/date,
\* base/source/date/type (line 102), then the PUT (line 113).
LastPart == 5

AcceptedUnlessExisting(p, status) ==
    IF p < LastPart THEN status \in MKCOL_OK \ {405} ELSE status \in PUT_OK

AcceptedAnySuccess(p, status) == status \in MKCOL_OK \cup PUT_OK

Accepted(p, status) == IF p < LastPart THEN status \in MKCOL_OK ELSE status \in PUT_OK

\* The call begins: lines 97-99.
UploadCall ==
    /\ up_pc # "request"
    /\ up_pc' = "request"
    /\ attempt' = 0
    /\ part' = 1
    /\ last_err' = None
    /\ up_result' = None
    /\ err_log' = <<>>
    /\ req_log' = 0
    /\ sleep_log' = <<>>
    /\ sent' = <<>>
    /\ UNCHANGED <<gateVars, hashVars, idsVars, authVars, now, disk_ok, webVars, statsVars, notesVars, sourceVars, sessionVars, nameVars, clientVars>>

\* Lines 118-122: the except clause of the loop body, then the loop's end.
UploadFailedRetriesOnceMore(e) ==
    /\ last_err' = e
    /\ err_log' = Append(err_log, e)
    /\ part' = 1
    /\ IF attempt < UPLOAD_ATTEMPTS
       THEN /\ sleep_log' = Append(sleep_log, 15 * (attempt + 1))
            /\ attempt' = attempt + 1
            /\ UNCHANGED <<up_pc, up_result>>
       ELSE /\ up_pc' = "raised"
            /\ up_result' = [raised |-> e]
            /\ UNCHANGED <<attempt, sleep_log>>

UploadFailedFixedSleep(e) ==
    /\ last_err' = e
    /\ err_log' = Append(err_log, e)
    /\ part' = 1
    /\ IF attempt < UPLOAD_ATTEMPTS - 1
       THEN /\ sleep_log' = Append(sleep_log, 15)
            /\ attempt' = attempt + 1
            /\ UNCHANGED <<up_pc, up_result>>
       ELSE /\ up_pc' = "raised"
            /\ up_result' = [raised |-> e]
            /\ UNCHANGED <<attempt, sleep_log>>

UploadFailed(e) ==
    /\ last_err' = e
    /\ err_log' = Append(err_log, e)
    /\ part' = 1
    /\ IF attempt < UPLOAD_ATTEMPTS - 1
       THEN \* line 121: sleep 1.5 * (attempt + 1) seconds, then the next attempt
            /\ sleep_log' = Append(sleep_log, 15 * (attempt + 1))
            /\ attempt' = attempt + 1
            /\ UNCHANGED <<up_pc, up_result>>
       ELSE \* line 122: raise last_err
            /\ up_pc' = "raised"
            /\ up_result' = [raised |-> e]
            /\ UNCHANGED <<attempt, sleep_log>>

\* Lines 102-117: the next request of the attempt and its answer.
UploadRequest(status) ==
    /\ up_pc = "request"
    /\ req_log' = req_log + 1
    /\ sent' = Append(IF part = 1 THEN <<>> ELSE sent,
                      [part |-> part, status |-> status, ok |-> Accepted(part, status)])
    /\ IF Accepted(part, status)
       THEN IF part < LastPart
            THEN /\ part' = part + 1
                 /\ UNCHANGED <<up_pc, attempt, last_err, up_result, err_log, sleep_log>>
            ELSE /\ up_pc' = "returned"
                 /\ up_result' = [returned |-> "remote_path"]
                 /\ UNCHANGED <<attempt, part, last_err, err_log, sleep_log>>
       ELSE UploadFailed([attempt |-> attempt, part |-> part, status |-> status])
    /\ UNCHANGED <<gateVars, hashVars, idsVars, authVars, now, disk_ok, webVars, statsVars, notesVars, sourceVars, sessionVars, nameVars, clientVars>>

InitUploadSpec ==
    /\ InitGate
    /\ InitHashes
    /\ InitIds
    /\ InitWeb
    /\ InitStats
    /\ InitUpload
    /\ InitClient
    /\ InitNames
    /\ InitSession
    /\ InitSource
    /\ InitNotes
    /\ InitAuth
    /\ now = 0
    /\ config = DefaultConfig
    /\ disk_ok = TRUE

NextUpload ==
    \/ UploadCall
    \/ \E status \in Answers : UploadRequest(status)

SpecUpload == InitUploadSpec /\ [][NextUpload]_vars

InitAuthSpec ==
    /\ InitGate
    /\ InitHashes
    /\ InitIds
    /\ InitWeb
    /\ InitStats
    /\ InitUpload
    /\ InitClient
    /\ InitNames
    /\ InitSession
    /\ InitSource
    /\ InitNotes
    /\ InitAuth
    /\ now = 0
    /\ config = DefaultConfig
    /\ disk_ok = TRUE

NextAuth ==
    \/ \E ip \in Clients, password \in Passwords : AdminLoginPost(ip, password)
    \/ Tick

SpecAuth == InitAuthSpec /\ [][NextAuth]_vars

\* The process is restarted: the module globals are back at their defaults
\* (auth.py:19-20) and the file stays as the last save left it.
AuthRestart ==
    /\ rate_limit_loaded
    /\ _login_rate_limit' = EmptyMap
    /\ rate_limit_loaded' = FALSE
    /\ UNCHANGED <<rate_limit_file, last_login, lock_start, consecutive>>
    /\ UNCHANGED <<gateVars, hashVars, idsVars, uploadVars, now, disk_ok, webVars, statsVars, notesVars, sourceVars, sessionVars, nameVars, clientVars>>

\* Time passes, over a horizon of two steps of the clock.
RestartMaxNow == 90

TickRestart ==
    /\ now + ClockStep <= RestartMaxNow
    /\ now' = now + ClockStep
    /\ UNCHANGED <<gateVars, hashVars, idsVars, uploadVars, authVars, disk_ok, webVars, statsVars, notesVars, sourceVars, sessionVars, nameVars, clientVars>>

NextAuthRestart ==
    \/ \E ip \in Clients, password \in Passwords : AdminLoginPost(ip, password)
    \/ TickRestart
    \/ AuthRestart

SpecAuthRestart == InitAuthSpec /\ [][NextAuthRestart]_vars

(***************************************************************************)
(* The seen-key stores on their own: calls of contains and add, a link     *)
(* message passing the seen-ID bookkeeping of _handle_text, and time.      *)
(***************************************************************************)
\* hash_store.contains(h) and hash_store.add(h) called with hashing on.
HashContains(h) ==
    /\ config.hashing
    /\ hash_store_contains_effect
    /\ UNCHANGED <<gateVars, idsVars, uploadVars, authVars, now, disk_ok, webVars, statsVars, notesVars, sourceVars, sessionVars, nameVars, clientVars>>

HashAdd(h) ==
    /\ config.hashing
    /\ hash_store_add(h)
    /\ UNCHANGED <<gateVars, idsVars, uploadVars, authVars, now, disk_ok, webVars, statsVars, notesVars, sourceVars, sessionVars, nameVars, clientVars>>

\* handlers.py lines 159-171: a text with a URL and a message ID. A seen ID
\* is skipped; otherwise a full set is emptied and the ID added before the
\* link is backed up (the backup touches none of the stores).
HandleLink(m) ==
    /\ \A w \in Workers : pc[w] = "idle"
    /\ IF m \in _processed_message_ids
       THEN UNCHANGED <<_processed_message_ids, cleared>>
       ELSE IF Cardinality(_processed_message_ids) >= _MAX_PROCESSED_IDS
            THEN /\ _processed_message_ids' = {m}
                 /\ cleared' = TRUE
            ELSE /\ _processed_message_ids' = _processed_message_ids \cup {m}
                 /\ UNCHANGED cleared
    /\ UNCHANGED <<pc, event, dup, eff, tmp, outcome, config>>
    /\ UNCHANGED <<hashVars, idsVars, uploadVars, authVars, now, disk_ok, webVars, statsVars, notesVars, sourceVars, sessionVars, nameVars, clientVars>>

\* Time passes by one save interval.
StoreMaxNow == 60

TickStore ==
    /\ now + SAVE_INTERVAL_SEC <= StoreMaxNow
    /\ now' = now + SAVE_INTERVAL_SEC
    /\ UNCHANGED <<gateVars, hashVars, idsVars, uploadVars, authVars, disk_ok, webVars, statsVars, notesVars, sourceVars, sessionVars, nameVars, clientVars>>

\* Snapshots a process may find at start: none or an unreadable one on a
\* first run, and ones longer than the capacity left by an earlier run.
InitStore ==
    /\ InitGate
    /\ InitWeb
    /\ InitStats
    /\ InitUpload
    /\ InitClient
    /\ InitNames
    /\ InitSession
    /\ InitSource
    /\ InitNotes
    /\ InitAuth
    /\ now = 0
    /\ config = DefaultConfig
    /\ disk_ok = TRUE
    /\ _ids = {} /\ ids_loaded = FALSE /\ _dirty = 0 /\ _last_save_at = 0
    /\ unsaved_since = -1
    /\ ids_saved = {} /\ ids_saved_earlier = FALSE
    /\ _hashes = {} /\ hashes_loaded = FALSE
    /\ hashes_order = <<>>
    /\ \/ ids_file = Missing /\ hashes_file = Corrupt
       \/ /\ ids_file = Holding(<<"k1", "k2", "k3">>)
          /\ hashes_file = Holding(<<"h3", "h2", "h1">>)

NextStore ==
    \/ \E k \in Keys : processed_ids_contains(k)
    \/ \E k \in Keys : processed_ids_add(k)
    \/ \E h \in Digests : HashContains(h)
    \/ \E h \in Digests : HashAdd(h)
    \/ \E m \in MsgIds : HandleLink(m)
    \/ TickStore

SpecStore == InitStore /\ [][NextStore]_vars

(***************************************************************************)
(* processed_ids.py on its own: lookups and adds while time passes.  The   *)
(* module starts no timer or task: _save_if_needed runs inside add only.   *)
(***************************************************************************)
BatchStep == 30
BatchMaxNow == 150

TickBatch ==
    /\ now + BatchStep <= BatchMaxNow
    /\ now' = now + BatchStep
    /\ UNCHANGED <<gateVars, hashVars, idsVars, uploadVars, authVars, disk_ok, webVars, statsVars, notesVars, sourceVars, sessionVars, nameVars, clientVars>>

InitBatch ==
    /\ InitGate
    /\ InitHashes
    /\ InitWeb
    /\ InitStats
    /\ InitUpload
    /\ InitClient
    /\ InitNames
    /\ InitSession
    /\ InitSource
    /\ InitNotes
    /\ InitAuth
    /\ now = 0
    /\ config = DefaultConfig
    /\ disk_ok = TRUE
    /\ _ids = {} /\ ids_loaded = FALSE /\ _dirty = 0 /\ _last_save_at = 0
    /\ unsaved_since = -1
    /\ ids_saved = {} /\ ids_saved_earlier = FALSE
    /\ ids_file \in {Missing, Corrupt, Holding(<<"k1", "k2", "k3">>)}

NextBatch ==
    \/ \E k \in Keys : processed_ids_contains(k)
    \/ \E k \in Keys : processed_ids_add(k)
    \/ TickBatch

SpecBatch == InitBatch /\ [][NextBatch]_vars

\* The process is restarted: the module globals are back at their defaults
\* (processed_ids.py:19-22); what was added and not saved is gone.
IdsRestart ==
    /\ ids_loaded
    /\ _ids' = {}
    /\ ids_loaded' = FALSE
    /\ _dirty' = 0
    /\ _last_save_at' = 0
    /\ unsaved_since' = -1
    /\ ids_saved_earlier' = (ids_saved # {})
    /\ UNCHANGED <<ids_file, ids_saved>>
    /\ UNCHANGED <<gateVars, hashVars, uploadVars, authVars, now, disk_ok, webVars, statsVars, notesVars, sourceVars, sessionVars, nameVars, clientVars>>

NextIdsRestart ==
    \/ \E k \in Keys : processed_ids_contains(k)
    \/ \E k \in Keys : processed_ids_add(k)
    \/ TickBatch
    \/ IdsRestart

SpecIdsRestart == InitBatch /\ [][NextIdsRestart]_vars

(***************************************************************************)
(* The three persisted stores started on a missing or unreadable file.     *)
(* One ID, one digest and one client are used; once a store has loaded,    *)
(* its file may be replaced from outside the process by a snapshot that    *)
(* holds other entries.                                                    *)
(***************************************************************************)
LoadKey    == "k1"
LoadDigest == "h1"
LoadClient == "1.2.3.4"

RestoredIds    == Holding(<<"k2", "k3">>)
RestoredHashes == Holding(<<"h2", "h3">>)
RestoredLimits == Holding([ip \in {"5.6.7.8"} |->
                             [failed |-> LOGIN_MAX_FAILED, locked_until |-> MaxNow]])

SnapshotRestored ==
    /\ \/ /\ ids_loaded /\ ids_file # RestoredIds
          /\ ids_file' = RestoredIds
          /\ UNCHANGED <<hashes_file, rate_limit_file>>
       \/ /\ hashes_loaded /\ hashes_file # RestoredHashes
          /\ hashes_file' = RestoredHashes
          /\ UNCHANGED <<ids_file, rate_limit_file>>
       \/ /\ rate_limit_loaded /\ rate_limit_file # RestoredLimits
          /\ rate_limit_file' = RestoredLimits
          /\ UNCHANGED <<ids_file, hashes_file>>
    /\ UNCHANGED <<_ids, ids_loaded, _dirty, _last_save_at, unsaved_since, ids_saved,
                   ids_saved_earlier, _hashes, hashes_loaded, hashes_order,
                   _login_rate_limit, rate_limit_loaded, last_login, lock_start, consecutive>>
    /\ UNCHANGED <<gateVars, uploadVars, webVars, statsVars, now, disk_ok, notesVars, sourceVars, sessionVars, nameVars, clientVars>>

InitLoad ==
    /\ InitGate
    /\ InitWeb
    /\ InitStats
    /\ InitUpload
    /\ InitClient
    /\ InitNames
    /\ InitSession
    /\ InitSource
    /\ InitNotes
    /\ now = 0
    /\ config = DefaultConfig
    /\ disk_ok = TRUE
    /\ _ids = {} /\ ids_loaded = FALSE /\ _dirty = 0 /\ _last_save_at = 0
    /\ unsaved_since = -1
    /\ ids_saved = {} /\ ids_saved_earlier = FALSE
    /\ ids_file \in {Missing, Corrupt}
    /\ _hashes = {} /\ hashes_loaded = FALSE
    /\ hashes_order = <<>>
    /\ hashes_file \in {Missing, Corrupt}
    /\ _login_rate_limit = EmptyMap
    /\ rate_limit_loaded = FALSE
    /\ rate_limit_file \in {Missing, Corrupt}
    /\ last_login = NoLogin
    /\ lock_start = [ip \in Clients |-> -1]
    /\ consecutive = [ip \in Clients |-> 0]

NextLoad ==
    \/ processed_ids_contains(LoadKey)
    \/ processed_ids_add(LoadKey)
    \/ HashContains(LoadDigest)
    \/ HashAdd(LoadDigest)
    \/ \E password \in {"wrong", ADMIN_PASSWORD} : AdminLoginPost(LoadClient, password)
    \/ SnapshotRestored

SpecLoad == InitLoad /\ [][NextLoad]_vars

(***************************************************************************)
(* nextcloud.py: append_to_daily_notes (lines 147-184), for one source     *)
(* folder on one day.  A block is named by the number of the call that     *)
(* wrote it.                                                               *)
(***************************************************************************)
MaxNotes == 6

\* What the GET of line 161 meets: a server that answers for the file as it
\* is (200 with the content, 404 when there is none), a server error, or a
\* failure of the request itself.
GetAnswers == {"served", "500", "error"}
PutAnswers == {"201", "500", "error"}

GetStatus(get) ==
    IF get = "served" THEN (IF notes_remote = <<>> THEN "404" ELSE "200") ELSE get

\* Lines 158-165: the content is taken from a 200 answer only; every other
\* status, and an exception of the request, leave existing = "".
Existing(get) ==
    IF GetStatus(get) = "200" THEN notes_remote ELSE <<>>

\* One call of append_to_daily_notes. The answers to the MKCOLs are not
\* looked at (lines 168-171); the PUT replaces the file by existing + block
\* and any status outside (200, 201, 204) raises (lines 172-175).
AppendNote(get, put) ==
    /\ notes_calls < MaxNotes
    /\ notes_calls' = notes_calls + 1
    /\ IF put = "201"
       THEN /\ notes_remote' = Append(Existing(get), notes_calls + 1)
            /\ notes_returned' = Append(notes_returned, notes_calls + 1)
       ELSE UNCHANGED <<notes_remote, notes_returned>>
    /\ UNCHANGED <<gateVars, hashVars, idsVars, uploadVars, authVars, webVars, statsVars, now, disk_ok, sourceVars, sessionVars, nameVars, clientVars>>

InitNotesSpec ==
    /\ InitGate
    /\ InitHashes
    /\ InitIds
    /\ InitWeb
    /\ InitStats
    /\ InitUpload
    /\ InitClient
    /\ InitNames
    /\ InitSession
    /\ InitSource
    /\ InitNotes
    /\ InitAuth
    /\ now = 0
    /\ config = DefaultConfig
    /\ disk_ok = TRUE

NextNotes == \E get \in GetAnswers, put \in PutAnswers : AppendNote(get, put)

SpecNotes == InitNotesSpec /\ [][NextNotes]_vars

(***************************************************************************)
(* The admin session: auth.py lines 73-99 and the login of main.py, lines  *)
(* 348-364.  The server keeps no session: the cookie value is one constant *)
(* and its lifetime is the max_age the client was told.                    *)
(***************************************************************************)
ADMIN_SESSION_SECONDS == 3600
SessionStep == 1800
SessionMaxNow == 9000

\* admin_session_token(): the HMAC of a fixed string under the password.
admin_session_token == "hmac(secret)"
Cookies == {"", "forged", admin_session_token}

\* admin_authenticated(request) (auth.py:80-84), ADMIN_PASSWORD being set.
admin_authenticated(cookie) == ADMIN_PASSWORD = "" \/ cookie = admin_session_token

\* POST /admin/login (main.py:348-364): a correct password is answered by
\* a redirect that sets the cookie.
SessionLogin(password) ==
    /\ IF password # "" /\ password = ADMIN_PASSWORD
       THEN session_renewed_at' = now
       ELSE UNCHANGED session_renewed_at
    /\ UNCHANGED last_admin
    /\ UNCHANGED <<gateVars, hashVars, idsVars, uploadVars, authVars, webVars, statsVars, notesVars, sourceVars, now, disk_ok, nameVars, clientVars>>

\* A request to an admin page presenting a cookie; the session value is
\* presented only once some response has handed it out. An authenticated
\* response sets the cookie again (refresh_admin_cookie, auth.py:87-99).
AdminRequest(cookie) ==
    /\ cookie = admin_session_token => session_renewed_at # -1
    /\ last_admin' = [cookie |-> cookie,
                      authed |-> admin_authenticated(cookie),
                      idle   |-> IF session_renewed_at = -1 THEN 0 ELSE now - session_renewed_at]
    /\ session_renewed_at' = IF admin_authenticated(cookie) THEN now ELSE session_renewed_at
    /\ UNCHANGED <<gateVars, hashVars, idsVars, uploadVars, authVars, webVars, statsVars, notesVars, sourceVars, now, disk_ok, nameVars, clientVars>>

TickSession ==
    /\ now + SessionStep <= SessionMaxNow
    /\ now' = now + SessionStep
    /\ UNCHANGED <<gateVars, hashVars, idsVars, uploadVars, authVars, webVars, statsVars, notesVars, sourceVars, sessionVars, disk_ok, nameVars, clientVars>>

InitSessionSpec ==
    /\ InitGate
    /\ InitHashes
    /\ InitIds
    /\ InitWeb
    /\ InitStats
    /\ InitNotes
    /\ InitSource
    /\ InitUpload
    /\ InitClient
    /\ InitNames
    /\ InitSession
    /\ InitAuth
    /\ now = 0
    /\ config = DefaultConfig
    /\ disk_ok = TRUE

NextSession ==
    \/ \E password \in Passwords : SessionLogin(password)
    \/ \E cookie \in Cookies : AdminRequest(cookie)
    \/ TickSession

SpecSession == InitSessionSpec /\ [][NextSession]_vars

(***************************************************************************)
(* handlers.py: the source selection of _handle_text (lines 139-158) and   *)
(* the folder a media item is uploaded under (lines 115-120).              *)
(***************************************************************************)
SourceUsers == {"U1", "U2"}

\* source_map.SOURCE_MAP as an admin may have set it: two numbered folders
\* and a folder under the key "0".
SOURCE_MAP == [k \in {"0", "1", "2"} |->
                 IF k = "1" THEN "Amigo" ELSE IF k = "2" THEN "Ben" ELSE "Zero"]

\* Texts a user sends: the keys, a reset word in capitals, a text that is
\* no command, and a link.
Texts == {"0", "1", "2", "Reset", "hello", "https://a.example"}

\* str.lower() on the texts above.
Lower(t) == IF t = "Reset" THEN "reset" ELSE t

\* Line 144; the fourth word of the source is the Chinese for "default".
ResetWords == {"0", "other", "reset"}

\* The folder a text selects with the keys of SOURCE_MAP looked up first.
SelectedKeysFirst(t) ==
    IF t \in DOMAIN SOURCE_MAP THEN SOURCE_MAP[t]
    ELSE IF Lower(t) \in ResetWords THEN "other"
    ELSE ""

\* Lines 144-158: the folder a text selects, "" when it is no selection
\* command: the reset words are tested first, then the keys of SOURCE_MAP.
Selected(t) ==
    IF Lower(t) \in ResetWords THEN "other"
    ELSE IF t \in DOMAIN SOURCE_MAP THEN SOURCE_MAP[t]
    ELSE ""

\* _extract_urls(text) finds a URL (lines 32, 159-160).
HasUrl(t) == t = "https://a.example"

\* A reply or push behind "if config.ENABLE_LINE_REPLIES and ...": the
\* number of messages it sends. The first definition sends regardless.
SentAlways(guard) == 1

SentIf(guard) == IF guard THEN 1 ELSE 0

\* source_map.user_source.get(user_id, "other") (line 116).
SourceOf(u) == IF u \in DOMAIN user_source THEN user_source[u] ELSE "other"

\* _handle_text up to line 158, for a text of user u (a text without a user
\* ID returns at line 142-143).
HandleSelection(u, t) ==
    /\ u # None
    /\ Selected(t) # ""
    /\ user_source' = [x \in DOMAIN user_source \cup {u} |->
                         IF x = u THEN Selected(t) ELSE user_source[x]]
    /\ source_state_file' = IF disk_ok THEN Holding(user_source') ELSE source_state_file
    /\ last_command' = [last_command EXCEPT ![u] = t]
    /\ text_eff' = [path |-> "selected", sent |-> SentIf(config.replies)]
    /\ UNCHANGED last_upload
    /\ UNCHANGED <<gateVars, hashVars, idsVars, uploadVars, authVars, webVars, statsVars, notesVars, now, disk_ok, sessionVars, nameVars, clientVars>>

\* _handle_media_message at lines 115-120: the folder handed to the upload.
MediaUpload(u) ==
    /\ last_upload' = [user |-> u, folder |-> SourceOf(u),
                        command |-> IF u \in SourceUsers THEN last_command[u] ELSE ""]
    /\ UNCHANGED <<user_source, source_state_file, last_command, text_eff>>
    /\ UNCHANGED <<gateVars, hashVars, idsVars, uploadVars, authVars, webVars, statsVars, notesVars, now, disk_ok, sessionVars, nameVars, clientVars>>

\* _handle_text for a text that is no selection command and holds a URL
\* (lines 159-171) with _backup_links_to_nextcloud (lines 42-57): a seen
\* message ID is skipped; otherwise the ID is marked, the text uploaded, and
\* the outcome pushed to the user when replies are on.
HandleLinkBackup(u, t, m, ok) ==
    /\ \A w \in Workers : pc[w] = "idle"
    /\ u # None
    /\ Selected(t) = "" /\ HasUrl(t)
    /\ IF m \in _processed_message_ids
       THEN /\ UNCHANGED <<_processed_message_ids, cleared>>
            /\ text_eff' = [path |-> "link_seen", sent |-> 0]
       ELSE /\ IF Cardinality(_processed_message_ids) >= _MAX_PROCESSED_IDS
               THEN /\ _processed_message_ids' = {m}
                    /\ cleared' = TRUE
               ELSE /\ _processed_message_ids' = _processed_message_ids \cup {m}
                    /\ UNCHANGED cleared
            /\ text_eff' = [path |-> IF ok THEN "link_ok" ELSE "link_failed",
                            sent |-> SentIf(config.replies)]
    /\ UNCHANGED <<pc, event, dup, eff, tmp, outcome, config>>
    /\ UNCHANGED <<user_source, source_state_file, last_command, last_upload>>
    /\ UNCHANGED <<hashVars, idsVars, uploadVars, authVars, webVars, statsVars, notesVars, now, disk_ok, sessionVars, nameVars, clientVars>>

\* _handle_text for any other text (lines 172-183): with ENABLE_TEXT_BACKUP
\* on the text is appended to the daily notes; success is answered by a
\* reply and failure by a push, when replies are on.
HandleNote(u, t, enabled, ok) ==
    /\ \A w \in Workers : pc[w] = "idle"
    /\ u # None
    /\ Selected(t) = "" /\ ~HasUrl(t)
    /\ text_eff' = IF ~enabled THEN [path |-> "ignored", sent |-> 0]
                   ELSE [path |-> IF ok THEN "note_ok" ELSE "note_failed",
                         sent |-> SentIf(config.replies)]
    /\ UNCHANGED <<user_source, source_state_file, last_command, last_upload>>
    /\ UNCHANGED <<gateVars, hashVars, idsVars, uploadVars, authVars, webVars, statsVars, notesVars, now, disk_ok, sessionVars, nameVars, clientVars>>

\* The media handler and the text handler side by side, for one user, with
\* replies off; media items and links carry different message IDs.
SilentUser == "U1"
MediaIds == {"m1", "m2"}
LinkIds  == {"m3"}

InitSilent ==
    /\ InitGate
    /\ InitHashes
    /\ InitIds
    /\ InitWeb
    /\ InitStats
    /\ InitNotes
    /\ InitSource
    /\ InitUpload
    /\ InitClient
    /\ InitNames
    /\ InitSession
    /\ InitAuth
    /\ now = 0
    /\ config = [replies |-> FALSE, hashing |-> TRUE, max_mb |-> 2]
    /\ disk_ok = TRUE

NextSilent ==
    \/ \E m \in MediaIds : Deliver("w1", m, SilentUser)
    \/ Step("w1")
    \/ HandleSelection(SilentUser, "1")
    \/ \E m \in LinkIds, ok \in BOOLEAN : HandleLinkBackup(SilentUser, "https://a.example", m, ok)
    \/ \E enabled, ok \in BOOLEAN : HandleNote(SilentUser, "hello", enabled, ok)

SpecSilent == InitSilent /\ [][NextSilent]_vars

InitSourceSpec ==
    /\ InitGate
    /\ InitHashes
    /\ InitIds
    /\ InitWeb
    /\ InitStats
    /\ InitNotes
    /\ InitUpload
    /\ InitClient
    /\ InitNames
    /\ InitSession
    /\ InitSource
    /\ InitAuth
    /\ now = 0
    /\ config = DefaultConfig
    /\ disk_ok = TRUE

NextSource ==
    \/ \E u \in SourceUsers, t \in Texts : HandleSelection(u, t)
    \/ \E u \in SourceUsers \cup {None} : MediaUpload(u)

SpecSource == InitSourceSpec /\ [][NextSource]_vars

(***************************************************************************)
(* main.py: the webhook endpoint, callback (lines 601-614). handler.handle *)
(* checks the signature and then calls the handler of the event, here      *)
(* _handle_media_message, which main.py has without the hash check; it     *)
(* returns when the handler has returned and passes on what it raises.     *)
(***************************************************************************)
Signatures == {"", "bad", "good"}

\* Lines 606-607: a missing signature or a missing credential.
Unconfigured(sig) == sig = "" \/ ~credentials.secret \/ ~credentials.token

\* A request arrives: lines 603-612 up to the call of the event's handler.
Callback(sig, m, u) ==
    /\ cb_pc = "idle"
    /\ pc["w1"] = "idle"
    /\ request' = [sig |-> sig]
    /\ IF Unconfigured(sig)
       THEN /\ response' = 500
            /\ handled' = FALSE
            /\ UNCHANGED <<cb_pc, gateVars, hashVars, disk_ok, notesVars, sourceVars, sessionVars, nameVars, clientVars>>
       ELSE IF sig # "good"
            THEN \* InvalidSignatureError, lines 611-612
                 /\ response' = 400
                 /\ handled' = FALSE
                 /\ UNCHANGED <<cb_pc, gateVars, hashVars, disk_ok, notesVars, sourceVars, sessionVars, nameVars, clientVars>>
            ELSE /\ response' = 0
                 /\ handled' = TRUE
                 /\ cb_pc' = "handling"
                 /\ Enter("w1", m, u)
    /\ UNCHANGED <<credentials, uploadVars, authVars, idsVars, statsVars, now, notesVars, sourceVars, sessionVars, nameVars, clientVars>>

\* handler.handle has returned (line 614) or has raised what the handler
\* raised, which the framework answers with a server error.
CallbackReturn ==
    /\ cb_pc = "handling"
    /\ pc["w1"] = "idle"
    /\ cb_pc' = "idle"
    /\ response' = IF outcome["w1"] = "raised" THEN 500 ELSE 200
    /\ UNCHANGED <<request, handled, credentials>>
    /\ UNCHANGED <<gateVars, hashVars, idsVars, uploadVars, authVars, statsVars, now, disk_ok, notesVars, sourceVars, sessionVars, nameVars, clientVars>>

InitWebhook ==
    /\ InitGate
    /\ InitStats
    /\ InitHashes
    /\ InitIds
    /\ InitUpload
    /\ InitClient
    /\ InitNames
    /\ InitSession
    /\ InitSource
    /\ InitNotes
    /\ InitAuth
    /\ now = 0
    /\ config \in [replies : BOOLEAN, hashing : {FALSE}, max_mb : {0, 2}]
    /\ disk_ok = TRUE
    /\ cb_pc = "idle"
    /\ request = [sig |-> ""]
    /\ response = 0
    /\ handled = FALSE
    /\ credentials \in [secret : BOOLEAN, token : BOOLEAN]

NextWebhook ==
    \/ \E sig \in Signatures, m \in MsgIds, u \in Users : Callback(sig, m, u)
    \/ Step("w1")
    \/ CallbackReturn

SpecWebhook == InitWebhook /\ [][NextWebhook]_vars

(***************************************************************************)
(* stats.py: the backup statistics.  The module keeps the time of the last *)
(* backup and a counter for one calendar day of the zone config.TZ, and    *)
(* writes both to STATS_FILE on every record_backup.                       *)
(***************************************************************************)
\* Times are seconds since the epoch; config.TZ is Asia/Taipei, eight hours
\* ahead of UTC all year (config.py:8).
TZ_OFFSET == 28800
DAY == 86400

\* datetime.now(config.TZ).strftime("%Y-%m-%d") with the UTC date instead.
today_utc(t) == t \div DAY

\* datetime.now(config.TZ).strftime("%Y-%m-%d") (stats.py:57-58, 75): the
\* calendar day of time t in the zone, as a day number.
today(t) == (t + TZ_OFFSET) \div DAY

\* The module's globals (stats.py:15-17) as one record.
StatsNone == [last_at |-> -1, date |-> -1, count |-> 0]
StatsMemory == [last_at |-> _last_at, date |-> _today_date, count |-> _today_count]

\* _load() (stats.py:20-32) applied to the globals mem: a missing or
\* unreadable file leaves them alone; "last_at" is taken only when it is a
\* string, the date and the count always.
stats_load(mem) ==
    IF stats_file.kind # "data" THEN mem
    ELSE [last_at |-> IF stats_file.data[1] # -1 THEN stats_file.data[1] ELSE mem.last_at,
          date    |-> stats_file.data[2],
          count   |-> stats_file.data[3]]

\* _save() (stats.py:35-51): a failed write is logged and swallowed.
stats_save(mem) ==
    IF disk_ok THEN Holding(<<mem.last_at, mem.date, mem.count>>) ELSE stats_file

\* get_backups_today() (stats.py:73-80): the globals after the call, which
\* reloads the file when the day counted is not the current one.
stats_after_read ==
    IF _today_date # today(now) THEN stats_load(StatsMemory) ELSE StatsMemory

\* The value get_backups_today() returns.
get_backups_today ==
    IF stats_after_read.date # today(now) THEN 0 ELSE stats_after_read.count

\* The value get_last_backup_at() returns (stats.py:67-70).
get_last_backup_at ==
    IF _last_at = -1 THEN stats_load(StatsMemory).last_at ELSE _last_at

MaxCalls == 3
StatsStep == 28800
StatsMaxNow == 172800

\* record_backup() (stats.py:54-64).
record_backup ==
    /\ Len(call_times) < MaxCalls
    /\ LET t == today(now)
           fresh == _today_date # t
           mem == [last_at |-> now,
                   date    |-> t,
                   count   |-> (IF fresh THEN 0 ELSE _today_count) + 1]
       IN  /\ _today_date' = mem.date
           /\ _today_count' = mem.count
           /\ _last_at' = mem.last_at
           /\ stats_file' = stats_save(mem)
    /\ call_times' = Append(call_times, now)
    /\ UNCHANGED <<gateVars, hashVars, idsVars, uploadVars, authVars, webVars, now, disk_ok, notesVars, sourceVars, sessionVars, nameVars, clientVars>>

\* A call of get_backups_today(): what it leaves in the globals.
ReadBackupsToday ==
    /\ _today_date' = stats_after_read.date
    /\ _today_count' = stats_after_read.count
    /\ _last_at' = stats_after_read.last_at
    /\ UNCHANGED <<stats_file, call_times>>
    /\ UNCHANGED <<gateVars, hashVars, idsVars, uploadVars, authVars, webVars, now, disk_ok, notesVars, sourceVars, sessionVars, nameVars, clientVars>>

\* A new process imports the module: the globals start at their defaults
\* (stats.py:15-17) and _load() runs (stats.py:84).
StatsStart ==
    /\ _today_date' = stats_load(StatsNone).date
    /\ _today_count' = stats_load(StatsNone).count
    /\ _last_at' = stats_load(StatsNone).last_at
    /\ UNCHANGED <<stats_file, call_times>>
    /\ UNCHANGED <<gateVars, hashVars, idsVars, uploadVars, authVars, webVars, now, disk_ok, notesVars, sourceVars, sessionVars, nameVars, clientVars>>

\* Time passes, a third of a day at a time, so that the day of the zone and
\* the UTC day change at different steps.
TickStats ==
    /\ now + StatsStep <= StatsMaxNow
    /\ now' = now + StatsStep
    /\ UNCHANGED <<gateVars, hashVars, idsVars, uploadVars, authVars, webVars, statsVars, disk_ok, notesVars, sourceVars, sessionVars, nameVars, clientVars>>

InitStatsSpec ==
    /\ InitGate
    /\ InitHashes
    /\ InitIds
    /\ InitWeb
    /\ InitStats
    /\ InitUpload
    /\ InitClient
    /\ InitNames
    /\ InitSession
    /\ InitSource
    /\ InitNotes
    /\ InitAuth
    /\ now = 0
    /\ config = [replies |-> FALSE, hashing |-> FALSE, max_mb |-> 0]
    /\ disk_ok = TRUE

NextStats ==
    \/ record_backup
    \/ ReadBackupsToday
    \/ StatsStart
    \/ TickStats

SpecStats == InitStatsSpec /\ [][NextStats]_vars

(***************************************************************************)
(* Claims about the duplicate-delivery gate.                               *)
(***************************************************************************)
\* The worker's handling has got past the gate: its ID is marked (line 72).
PastGate(w) == pc[w] \in {"reply", "download", "size", "hash", "upload", "record", "except"}

\* C1: a delivery whose message ID was in the seen-ID set when it arrived,
\* deliveries being handled one after the other, is dropped at the gate: it
\* makes no content download, no upload call and no reply or push.
C1_SecondDeliveryDropped ==
    \A w \in Workers :
        (dup[w] /\ pc[w] # "gate") =>
            /\ pc[w] = "idle"
            /\ outcome[w] = "dropped"
            /\ eff[w] = NoEffect
            /\ ~tmp[w].exists

\* A duplicate delivery was dropped although replies are on and its sender
\* is known, so that handling it would have sent messages.
C1_Witness ==
    /\ dup["w1"] /\ pc["w1"] = "idle" /\ outcome["w1"] = "dropped"
    /\ config.replies /\ event["w1"].user # None

\* C2: of two deliveries of the same message ID handled at the same time by
\* separate workers, with no eviction of the seen-ID set, at most one is past
\* the gate.
C2_AtMostOnePastGate ==
    \A v, w \in Workers :
        (v # w /\ event[v].id = event[w].id /\ ~cleared) => ~(PastGate(v) /\ PastGate(w))

(***************************************************************************)
(* Claims about the upload retries.                                        *)
(***************************************************************************)
\* C3: an upload makes at most 3 attempts (so at most 3 * 5 requests), it
\* raises only after three failed attempts, and the error it raises is the
\* one that ended the third attempt.
C3_ThreeAttemptsLastError ==
    /\ Len(err_log) <= 3
    /\ attempt <= 2
    /\ req_log <= 3 * LastPart
    /\ up_pc = "raised" =>
         /\ Len(err_log) = 3
         /\ up_result = [raised |-> err_log[3]]
         /\ err_log[3].attempt = 2
    /\ up_pc = "request" => Len(err_log) = attempt

\* Three attempts failed in three different ways and the call has raised.
C3_Witness ==
    /\ up_pc = "raised"
    /\ err_log[1].part # err_log[3].part
    /\ err_log[2].status # err_log[3].status
    /\ err_log[1].status = 0

(***************************************************************************)
(* Claims about the login rate limiter.                                    *)
(***************************************************************************)
\* The answer of the lock check for ip in the current state.
LockCheck(ip) == get_login_lock_error_html(load_rate_limit(_login_rate_limit, now), ip, now)

WrongPassword(l) == l.kind # "none" /\ l.password # ADMIN_PASSWORD

C6_SuccessClearsRecord ==
    /\ (last_login.kind # "none" /\ last_login.password = ADMIN_PASSWORD /\ ~last_login.locked_before) =>
         /\ last_login.kind = "accepted"
         /\ last_login.ip \notin DOMAIN _login_rate_limit
         /\ rate_limit_file.kind = "data"
         /\ last_login.ip \notin DOMAIN rate_limit_file.data
    /\ (WrongPassword(last_login) /\ ~last_login.locked_before /\ consecutive[last_login.ip] = 1) =>
         /\ _login_rate_limit[last_login.ip].failed = 1
         /\ last_login.num = LOGIN_MAX_FAILED - 1

\* A client with failures on record logged in, and record and file entry are gone.
C6_Witness ==
    /\ last_login.kind = "accepted"
    /\ last_login.before.failed = LOGIN_MAX_FAILED - 1
    /\ last_login.ip \notin DOMAIN _login_rate_limit
    /\ \E other \in Clients : other \in DOMAIN rate_limit_file.data

\* C7: a failed attempt made after the client's lock has expired counts from
\* a reset record: failed is 1, the client is not locked by it, and it is
\* told LOGIN_MAX_FAILED - 1 attempts are left.
C7_FailureAfterExpiryCountsFromOne ==
    (WrongPassword(last_login) /\ last_login.expired_before) =>
        /\ last_login.kind = "wrong"
        /\ last_login.num = LOGIN_MAX_FAILED - 1
        /\ _login_rate_limit[last_login.ip] = [failed |-> 1, locked_until |-> 0]
        /\ ~LockCheck(last_login.ip).locked

\* A client failed again after its lock had run out.
C7_Witness ==
    /\ WrongPassword(last_login) /\ last_login.expired_before
    /\ last_login.before.failed = LOGIN_MAX_FAILED
    /\ last_login.kind = "wrong"

\* C8: for a client that started with no record, the k-th consecutive failed
\* attempt, k < LOGIN_MAX_FAILED, reports LOGIN_MAX_FAILED - k attempts left
\* and leaves it unlocked; the LOGIN_MAX_FAILED-th sets
\* locked_until = now + LOGIN_LOCK_SECONDS and reports the lockout.
C8_KthFailure ==
    LET ip == last_login.ip
        k  == consecutive[ip]
    IN
    (WrongPassword(last_login) /\ ~last_login.locked_before /\ k <= LOGIN_MAX_FAILED) =>
        IF k < LOGIN_MAX_FAILED
        THEN /\ last_login.kind = "wrong"
             /\ last_login.num = LOGIN_MAX_FAILED - k
             /\ _login_rate_limit[ip] = [failed |-> k, locked_until |-> 0]
        ELSE /\ last_login.kind = "lockout"
             /\ last_login.num = LOGIN_LOCK_SECONDS \div 60
             /\ _login_rate_limit[ip] = [failed |-> k, locked_until |-> lock_start[ip] + LOGIN_LOCK_SECONDS]
             /\ lock_start[ip] >= 0

\* The fifth failure in a row has locked the client, at a time after 0.
C8_Witness ==
    /\ last_login.kind = "lockout"
    /\ consecutive[last_login.ip] = LOGIN_MAX_FAILED
    /\ lock_start[last_login.ip] > 0
    /\ now = lock_start[last_login.ip]

(***************************************************************************)
(* Claims about the seen-key stores.                                       *)
(***************************************************************************)
\* C9: after any sequence of add calls, and after loading a snapshot of any
\* size, no seen-key store holds more keys than its capacity: the persisted
\* message IDs, the content hashes, and the handlers' in-memory message IDs.
C9_StoreWithinCapacity ==
    /\ Cardinality(_ids) <= _MAX_IDS
    /\ Cardinality(_hashes) <= _MAX_HASHES
    /\ Cardinality(_processed_message_ids) <= _MAX_PROCESSED_IDS

\* Each store has been pushed over its capacity and is full: the hash store
\* by a third distinct add, the ID store by an add after loading the long
\* snapshot and saving, the handlers' set by a link message that emptied it.
C9_Witness ==
    /\ Len(hashes_order) > _MAX_HASHES /\ Cardinality(_hashes) = _MAX_HASHES
    /\ ids_loaded /\ _dirty = 0 /\ _last_save_at > 0
    /\ Cardinality(_ids) = _MAX_IDS
    /\ cleared /\ Cardinality(_processed_message_ids) = _MAX_PROCESSED_IDS

\* C10: eviction is by insertion order. Once every key the hash store holds
\* was inserted by add, it holds exactly the _MAX_HASHES most recently
\* inserted keys, the key just inserted among them.
C10_EvictsOldestInserted ==
    (hashes_loaded /\ _hashes \subseteq Range(hashes_order)) =>
        _hashes = Range(LastN(hashes_order, _MAX_HASHES))

C12_KnownDigestDroppedAndTold ==
    \A w \in Workers :
        eff[w].hit > 0 =>
            /\ eff[w].up = 0 /\ eff[w].stat = 0
            /\ pc[w] \in {"idle", "except"}
            /\ pc[w] = "idle" => eff[w].msg > (IF config.replies THEN 1 ELSE 0)

\* C12, amended: the same, the sender being told only when replies are
\* enabled and the sender is known; without them no message beyond the
\* acknowledging reply is sent.
C12_KnownDigestDropped ==
    \A w \in Workers :
        eff[w].hit > 0 =>
            /\ config.hashing
            /\ eff[w].up = 0 /\ eff[w].stat = 0 /\ eff[w].dl = 1
            /\ pc[w] \in {"idle", "except"}
            /\ pc[w] = "idle" => outcome[w] \in {"duplicate", "failed", "raised"}
            /\ pc[w] = "idle" =>
                 IF WillPush(w)
                 THEN eff[w].msg > (IF config.replies THEN 1 ELSE 0)
                 ELSE eff[w].msg = (IF config.replies THEN 1 ELSE 0)

\* A content with a known digest was dropped and its sender told.
C12_Witness ==
    /\ eff["w1"].hit > 0 /\ pc["w1"] = "idle" /\ outcome["w1"] = "duplicate"
    /\ WillPush("w1") /\ eff["w1"].msg = 2

\* C13: content over a positive MAX_FILE_SIZE_MB is dropped right after its
\* download, with no hash-store call, no upload call and no stats record;
\* content is dropped for its size only then, never when the maximum is 0.
C13_SizeCheckBeforeHashAndUpload ==
    \A w \in Workers :
        /\ (config.max_mb > 0 /\ tmp[w].size > config.max_mb) =>
              /\ eff[w].dl = 1 /\ eff[w].hash = 0 /\ eff[w].up = 0 /\ eff[w].stat = 0
              /\ pc[w] \in {"size", "except", "idle"}
              /\ pc[w] = "idle" => outcome[w] \in {"oversize", "failed", "raised"}
        /\ (pc[w] = "idle" /\ outcome[w] = "oversize") =>
              (config.max_mb > 0 /\ tmp[w].size > config.max_mb)
        /\ (eff[w].hash > 0 \/ eff[w].up > 0) => eff[w].dl = 1

\* An oversized content was dropped, hashing being on; and content at the
\* limit is possible too.
C13_Witness ==
    /\ pc["w1"] = "idle" /\ outcome["w1"] = "oversize"
    /\ config.hashing /\ config.max_mb > 0 /\ tmp["w1"].size > config.max_mb

(***************************************************************************)
(* Claims about the requests of an upload attempt.                         *)
(***************************************************************************)
\* C14: the requests of an attempt are the four folder creations base,
\* base/source, base/source/date, base/source/date/type and then the PUT,
\* in this order, each sent only after all before it were accepted in the
\* same attempt; a folder creation answered 201, 204 or 405 never ends an
\* attempt; after a failed request the next one is the first folder
\* creation again; the call returns only after an accepted PUT.
C14_FoldersThenPut ==
    /\ Len(sent) <= LastPart
    /\ \A i \in DOMAIN sent : sent[i].part = i
    /\ \A i \in DOMAIN sent : i < Len(sent) => sent[i].ok
    /\ \A i \in DOMAIN err_log :
          IF err_log[i].part < LastPart
          THEN err_log[i].status \notin {201, 204, 405}
          ELSE err_log[i].status \notin {200, 201, 204}
    /\ up_pc = "request" =>
          part = (IF sent # <<>> /\ ~sent[Len(sent)].ok THEN 1 ELSE Len(sent) + 1)
    /\ up_pc = "returned" => (Len(sent) = LastPart /\ sent[LastPart].ok)

\* A second attempt has got as far as its PUT, the first attempt having
\* failed at the third folder creation.
C14_Witness ==
    /\ up_pc = "request" /\ attempt = 1 /\ part = LastPart
    /\ Len(sent) = LastPart - 1
    /\ err_log[1].part = 3

(***************************************************************************)
(* Claims about failures while an item is handled.                         *)
(***************************************************************************)
\* C15: no failure while an item is handled leaves the handler as an
\* exception: every handling ends with the handler returning normally.
C15_NoFailureLeavesHandler ==
    \A w \in Workers : outcome[w] # "raised"

(***************************************************************************)
(* Claims about the webhook endpoint.                                      *)
(***************************************************************************)
\* C16: while the item of a validly signed delivery is being downloaded or
\* uploaded, the acknowledgement has been sent or can be sent at once: the
\* endpoint does not wait for the handler.
C16_AcknowledgedWithoutWaiting ==
    (handled /\ pc["w1"] \in {"download", "size", "hash", "upload", "record"}) =>
        (response = 200 \/ ENABLED CallbackReturn)

\* C17: with the credentials configured, a request whose signature is
\* missing or invalid is answered with a client error and its event is not
\* handled; a server error is answered only when a credential is missing.
C17_SignatureFailureIsClientError ==
    /\ (response # 0 /\ request.sig # "good" /\ credentials.secret /\ credentials.token) =>
          (response \in 400..499 /\ ~handled)
    /\ response \in 500..599 => (~credentials.secret \/ ~credentials.token)

(***************************************************************************)
(* Claims about the backup statistics.                                     *)
(***************************************************************************)
\* C18: writes to the stats file succeeding, the count read for the current
\* day of the zone equals the number of record_backup calls made on that day
\* (so 0 on a day without one, 1 after the first of a new day), and the last
\* backup time read is the time of the most recent call.
C18_CountTodayMatchesCalls ==
    LET zoneDay(t) == (t + 28800) \div 86400
        madeToday == {i \in DOMAIN call_times : zoneDay(call_times[i]) = zoneDay(now)}
    IN  /\ get_backups_today = Cardinality(madeToday)
        /\ call_times # <<>> => get_last_backup_at = call_times[Len(call_times)]
        /\ call_times = <<>> => get_last_backup_at = -1

\* Two calls were made on one day of the zone, the day has changed (also
\* by the UTC calendar's count), and one call has been made on the new day.
C18_Witness ==
    /\ Len(call_times) = 3
    /\ today(call_times[1]) = today(call_times[2])
    /\ today(call_times[2]) < today(call_times[3])
    /\ today(call_times[3]) = today(now)
    /\ _today_count = 1

(***************************************************************************)
(* Claims about the batched saving of the seen-ID store.                   *)
(***************************************************************************)
\* C19: writes succeeding, whenever add has returned fewer than SAVE_EVERY_N
\* adds are unsaved: the counter of unsaved adds is below SAVE_EVERY_N, it
\* is above 0 while an added ID waits for a save, and the IDs of the set
\* that the snapshot on disk lacks are no more than that counter.
C19_FewerThanBatchUnsaved ==
    disk_ok =>
        /\ _dirty < SAVE_EVERY_N
        /\ unsaved_since # -1 => _dirty > 0
        /\ Cardinality(processed_ids_load \ Range(ids_file.data)) <= _dirty

\* A batch was written (the snapshot holds an ID added at run time beside
\* another), and since then adds one short of a batch wait for the next
\* save, one of them an ID the snapshot lacks.
C19_Witness ==
    /\ ids_loaded
    /\ ids_file.kind = "data"
    /\ Len(ids_file.data) = _MAX_IDS
    /\ _dirty = SAVE_EVERY_N - 1
    /\ _ids \ Range(ids_file.data) # {}

\* C20: an added ID is written to disk no later than SAVE_INTERVAL_SEC
\* seconds after it was added, whether or not another add follows.
C20_SavedWithinInterval ==
    unsaved_since # -1 => now - unsaved_since <= SAVE_INTERVAL_SEC

(***************************************************************************)
(* Claims about persisted state across a restart.                          *)
(***************************************************************************)
\* C21: the first login attempt after a restart, which reloads the
\* rate-limit file, sees for its client the record last persisted, failure
\* count and lock time alike, unless that record's lock has expired.
C21_RateLimitSurvivesRestart ==
    [][(~rate_limit_loaded /\ rate_limit_loaded' /\ rate_limit_file.kind = "data") =>
          LET ip == last_login'.ip
              f  == rate_limit_file.data
          IN  (ip \in DOMAIN f /\ ~Expired(f[ip], now)) => last_login'.before = f[ip]]_vars

\* C22: the IDs written by a save are all reported by contains after a
\* restart and the load that follows it (their number never exceeds the
\* capacity, add trimming the set before it saves): before the load they
\* are what the load will yield, after it they are in the set.
C22_SavedIdsSurviveReload ==
    (ids_saved_earlier /\ _dirty = 0) =>
        /\ Cardinality(ids_saved) <= _MAX_IDS
        /\ ids_saved \subseteq processed_ids_load

\* A full batch was saved, the process was restarted, and the store has
\* been loaded again without an add since: the set holds the saved IDs.
C22_Witness ==
    /\ ids_saved_earlier
    /\ ids_loaded
    /\ _dirty = 0
    /\ Cardinality(ids_saved) = SAVE_EVERY_N
    /\ ids_saved \subseteq _ids

\* C23: a store whose first use finds a missing or unreadable file is left
\* empty and is not loaded again in the process, whatever appears in the
\* file later: the ID store and the content-hash store hold exactly what was
\* added since, and the rate-limit map holds only the failures counted
\* since.
C23_FailSoftLoad ==
    /\ ~ids_loaded => processed_ids_load = {}
    /\ ids_loaded => _ids = (IF _dirty > 0 \/ ids_saved # {} THEN {LoadKey} ELSE {})
    /\ ~hashes_loaded => hash_store_load = {}
    /\ hashes_loaded => _hashes = Range(hashes_order)
    /\ ~rate_limit_loaded => load_rate_limit(_login_rate_limit, now) = EmptyMap
    /\ rate_limit_loaded =>
          /\ DOMAIN _login_rate_limit \subseteq {LoadClient}
          /\ RecordOf(_login_rate_limit, LoadClient).failed
                = Min(consecutive[LoadClient], LOGIN_MAX_FAILED)

\* Each store has loaded from a missing or unreadable file, and a snapshot
\* with other entries has then been put in place of each file.
C23_Witness ==
    /\ ids_loaded /\ ids_file = RestoredIds /\ _ids = {}
    /\ hashes_loaded /\ hashes_file = RestoredHashes /\ _hashes = {LoadDigest}
    /\ rate_limit_loaded /\ rate_limit_file = RestoredLimits
    /\ RecordOf(_login_rate_limit, LoadClient).failed = 1

(***************************************************************************)
(* Claims about the daily notes.                                           *)
(***************************************************************************)
\* C24: after appends that run one after the other, the notes file holds
\* the block of every call that returned successfully, in call order.
C24_NotesKeepEveryBlock ==
    notes_remote = notes_returned

(***************************************************************************)
(* Claims about the source selection.                                      *)
(***************************************************************************)
\* C25 as stated: a media item is uploaded under the folder its sender last
\* selected, a key of SOURCE_MAP selecting the mapped folder and a reset
\* word selecting "other"; under "other" when the sender never selected.
C25_UploadUnderLastSelection ==
    LET t == last_upload.command
    IN  last_upload.folder # "" =>
          /\ t = "" => last_upload.folder = "other"
          /\ t \in DOMAIN SOURCE_MAP => last_upload.folder = SOURCE_MAP[t]
          /\ Lower(t) \in ResetWords => last_upload.folder = "other"

\* C25, amended: a reset word selects "other" also when it is a key of
\* SOURCE_MAP, and every other key selects the mapped folder; each user's
\* selection is the one of that user's own last command.
C25_ResetWordsBeforeKeys ==
    /\ \A u \in SourceUsers :
          LET t == last_command[u] IN
          /\ t = "" => (u \notin DOMAIN user_source /\ SourceOf(u) = "other")
          /\ Lower(t) \in ResetWords => SourceOf(u) = "other"
          /\ (t \in DOMAIN SOURCE_MAP /\ Lower(t) \notin ResetWords) => SourceOf(u) = SOURCE_MAP[t]
    /\ SourceOf(None) = "other"
    /\ last_upload.folder # "" =>
          LET t == last_upload.command IN
          /\ t = "" => last_upload.folder = "other"
          /\ Lower(t) \in ResetWords => last_upload.folder = "other"
          /\ (t \in DOMAIN SOURCE_MAP /\ Lower(t) \notin ResetWords) =>
                last_upload.folder = SOURCE_MAP[t]

\* One user selected a mapped folder, the other sent the reset word that
\* is also a key, and the first user's item went under the first's folder.
C25_Witness ==
    /\ last_command["U1"] = "1"
    /\ last_command["U2"] = "0"
    /\ last_upload = [user |-> "U1", folder |-> "Amigo", command |-> "1"]

(***************************************************************************)
(* Claims about replies and pushes.                                        *)
(***************************************************************************)
\* C26: with ENABLE_LINE_REPLIES off no handling path of a media item or of
\* a text sends a reply or a push.
C26_SilentWhenRepliesOff ==
    ~config.replies =>
        /\ \A w \in Workers : eff[w].msg = 0
        /\ text_eff.sent = 0

\* Replies are off; a media item has been uploaded and recorded, and the
\* text handled last was appended to the notes: nothing was sent.
C26_Witness ==
    /\ ~config.replies
    /\ outcome["w1"] = "ok" /\ eff["w1"].up = 1 /\ eff["w1"].stat = 1 /\ eff["w1"].msg = 0
    /\ text_eff = [path |-> "note_ok", sent |-> 0]

(***************************************************************************)
(* Claims about the admin session.                                         *)
(***************************************************************************)
\* C27: a request presenting the session cookie value is authenticated only
\* if the cookie was set or renewed within the last ADMIN_SESSION_SECONDS.
C27_SessionExpiresAfterAnHour ==
    (last_admin.cookie = admin_session_token /\ last_admin.authed) =>
        last_admin.idle <= ADMIN_SESSION_SECONDS

(***************************************************************************)
(* Names: source_map.py lines 14-17 and nextcloud.py lines 32-51.  A text  *)
(* is a sequence of one-character strings.  Of the characters used here    *)
(* the ones of Punct are not alphanumeric, every other one is; the space   *)
(* is the only white space; "-" is allowed by all three sanitizers and     *)
(* stripped by none, as a letter is.                                       *)
(***************************************************************************)
Punct == {" ", ".", "_", "-", "?", "/", "[", "]"}
isalnum(c) == c \notin Punct

\* str.lstrip(chars)
lstrip(s, chars) ==
    LET kept == {i \in 1..Len(s) : s[i] \notin chars}
    IN  IF kept = {} THEN <<>>
        ELSE SubSeq(s, CHOOSE i \in kept : \A j \in kept : i <= j, Len(s))

\* str.rstrip(chars)
rstrip(s, chars) ==
    LET kept == {i \in 1..Len(s) : s[i] \notin chars}
    IN  IF kept = {} THEN <<>>
        ELSE SubSeq(s, 1, CHOOSE i \in kept : \A j \in kept : j <= i)

\* str.strip(chars); strip() without argument is strip(s, {" "})
strip(s, chars) == rstrip(lstrip(s, chars), chars)

\* s[:n]
Cut(s, n) == SubSeq(s, 1, Min(n, Len(s)))

\* "".join(c if c.isalnum() or c in extra else "_" for c in s)
Replaced(s, extra) ==
    [i \in 1..Len(s) |-> IF isalnum(s[i]) \/ s[i] \in extra THEN s[i] ELSE "_"]

\* "_".join(words) for a text without white space at its ends: the first
\* space of every run becomes "_", the others go
Underscored(s) ==
    LET marked == [i \in 1..Len(s) |->
                      IF s[i] # " " THEN s[i]
                      ELSE IF i > 1 /\ s[i - 1] = " " THEN "" ELSE "_"]
    IN  SelectSeq(marked, LAMBDA c : c # "")

\* "_".join(s.split())
JoinSplit(s) == Underscored(strip(s, {" "}))

RECURSIVE Components(_)
\* The parts of a path between its slashes.
Components(s) ==
    IF \A i \in 1..Len(s) : s[i] # "/" THEN <<s>>
    ELSE LET k == CHOOSE i \in 1..Len(s) : s[i] = "/" /\ \A j \in 1..(i - 1) : s[j] # "/"
         IN  <<SubSeq(s, 1, k - 1)>> \o Components(SubSeq(s, k + 1, Len(s)))

\* Path(name).name: the last part that is neither empty nor ".".
PathName(s) ==
    LET parts == SelectSeq(Components(s), LAMBDA c : c # <<>> /\ c # <<".">>)
    IN  IF parts = <<>> THEN <<>> ELSE parts[Len(parts)]

\* The position of the last dot of a name if it splits the name into a
\* stem and a suffix (not the first and not the last character), else 0.
SuffixDot(name) ==
    LET dots == {i \in 1..Len(name) : name[i] = "."}
        last == CHOOSE i \in dots : \A j \in dots : j <= i
    IN  IF dots # {} /\ 1 < last /\ last < Len(name) THEN last ELSE 0

\* Path(name).stem
PathStem(s) ==
    LET name == PathName(s)
    IN  IF SuffixDot(name) = 0 THEN name ELSE SubSeq(name, 1, SuffixDot(name) - 1)

\* Path(name).suffix
PathSuffix(s) ==
    LET name == PathName(s)
    IN  IF SuffixDot(name) = 0 THEN <<>> ELSE SubSeq(name, SuffixDot(name), Len(name))

\* a or b for strings
Or(a, b) == IF a # <<>> THEN a ELSE b

FOLDER_MAX_LEN == 32
STEM_MAX_LEN == 80
TITLE_MAX_LEN == 60
Other == <<"o", "t", "h", "e", "r">>
File == <<"f", "i", "l", "e">>

\* safe_folder_name (source_map.py:14-17)
safe_folder_name(name) ==
    Or(Cut(Replaced(name, {"_", "-"}), FOLDER_MAX_LEN), Other)

\* _safe_file_stem (nextcloud.py:32-38)
safe_file_stem(name, max_len) ==
    LET stem == strip(Or(Or(PathStem(name), PathName(name)), File), {" "})
        s    == JoinSplit(Replaced(stem, {" ", "_", "-", "."}))
    IN  strip(Or(Cut(s, max_len), File), {".", "_"})

\* _safe_link_title (nextcloud.py:41-45)
safe_link_title(title, max_len) ==
    LET s == strip(JoinSplit(Replaced(title, {" ", "_", "-"})), {"_"})
    IN  strip(Cut(s, max_len), {" "})

(***************************************************************************)
(* The sanitizers applied to the texts of a bounded set: every text of at  *)
(* most NameMaxLen characters, and texts reaching each length limit: a run *)
(* of letters one short of the limit followed by at most TailMaxLen        *)
(* characters.                                                             *)
(***************************************************************************)
NameMaxLen == 3
TailMaxLen == 2
Alphabet == {"a", " ", ".", "_", "?", "/"}

RECURSIVE TextsUpTo(_)
TextsUpTo(n) ==
    IF n = 0 THEN {<<>>}
    ELSE LET shorter == TextsUpTo(n - 1)
         IN  shorter \cup {Append(t, c) : t \in shorter, c \in Alphabet}

Repeat(c, n) == [i \in 1..n |-> c]

\* The names of test_safe_file_stem (tests/test_nextcloud.py:9-13).
Report_pdf == <<"R", "e", "p", "o", "r", "t", ".", "p", "d", "f">>
My_File_2024_pptx == <<"M", "y", " ", "F", "i", "l", "e", " ", "2", "0", "2", "4", ".", "p", "p", "t", "x">>

Names ==
    TextsUpTo(NameMaxLen)
        \cup {Report_pdf, My_File_2024_pptx}
        \cup {Repeat("a", k - 1) \o t : k \in {FOLDER_MAX_LEN, STEM_MAX_LEN, TITLE_MAX_LEN},
                                       t \in TextsUpTo(TailMaxLen)}

SanitizeFolder ==
    /\ san_fn = "none"
    /\ san_fn' = "folder"
    /\ san_once' = safe_folder_name(san_name)
    /\ san_twice' = safe_folder_name(safe_folder_name(san_name))
    /\ UNCHANGED <<san_name, path_in, remote_path>>
    /\ UNCHANGED <<gateVars, hashVars, idsVars, uploadVars, authVars, webVars, statsVars, notesVars, sourceVars, sessionVars, now, disk_ok, clientVars>>

SanitizeStem ==
    /\ san_fn = "none"
    /\ san_fn' = "stem"
    /\ san_once' = safe_file_stem(san_name, STEM_MAX_LEN)
    /\ san_twice' = safe_file_stem(safe_file_stem(san_name, STEM_MAX_LEN), STEM_MAX_LEN)
    /\ UNCHANGED <<san_name, path_in, remote_path>>
    /\ UNCHANGED <<gateVars, hashVars, idsVars, uploadVars, authVars, webVars, statsVars, notesVars, sourceVars, sessionVars, now, disk_ok, clientVars>>

SanitizeTitle ==
    /\ san_fn = "none"
    /\ san_fn' = "title"
    /\ san_once' = safe_link_title(san_name, TITLE_MAX_LEN)
    /\ san_twice' = safe_link_title(safe_link_title(san_name, TITLE_MAX_LEN), TITLE_MAX_LEN)
    /\ UNCHANGED <<san_name, path_in, remote_path>>
    /\ UNCHANGED <<gateVars, hashVars, idsVars, uploadVars, authVars, webVars, statsVars, notesVars, sourceVars, sessionVars, now, disk_ok, clientVars>>

InitSanitize ==
    /\ InitGate
    /\ InitHashes
    /\ InitIds
    /\ InitWeb
    /\ InitStats
    /\ InitNotes
    /\ InitSource
    /\ InitSession
    /\ InitUpload
    /\ InitClient
    /\ InitAuth
    /\ san_name \in Names
    /\ san_fn = "none"
    /\ san_once = <<>>
    /\ san_twice = <<>>
    /\ path_in = NoPath
    /\ remote_path = <<>>
    /\ now = 0
    /\ config = DefaultConfig
    /\ disk_ok = TRUE

NextSanitize ==
    \/ SanitizeFolder
    \/ SanitizeStem
    \/ SanitizeTitle

SpecSanitize == InitSanitize /\ [][NextSanitize]_vars

(***************************************************************************)
(* Claims about the sanitizers.                                            *)
(***************************************************************************)
\* C29: every sanitizer is idempotent: applying it to its own result
\* returns that result.
C29_SanitizeIdempotent ==
    san_fn # "none" => san_twice = san_once

\* C31: the sanitized file stem of a name "stem.ext" ends with ".ext", the
\* stem of "Report.pdf" is "Report.pdf", and the empty name gives "file".
C31_StemKeepsExtension ==
    san_fn = "stem" =>
        LET ext == PathSuffix(san_name)
        IN  /\ Len(san_once) >= Len(ext)
            /\ SubSeq(san_once, Len(san_once) - Len(ext) + 1, Len(san_once)) = ext
            /\ san_name = Report_pdf => san_once = Report_pdf
            /\ san_name = <<>> => san_once = <<"f", "i", "l", "e">>

\* C30: the sanitized folder name and the sanitized file stem are never
\* the empty text.
C30_SanitizeNeverEmpty ==
    san_fn \in {"folder", "stem"} => san_once # <<>>

(***************************************************************************)
(* The remote path of an upload: nextcloud.py lines 73-95.                 *)
(***************************************************************************)
Digits == <<"0", "1", "2", "3", "4", "5", "6", "7", "8", "9">>

RECURSIVE Padded(_, _)
\* n written in decimal with leading zeros, as %Y, %m, %d, %H, %M, %S write it
Padded(n, width) ==
    IF width = 0 THEN <<>> ELSE Padded(n \div 10, width - 1) \o <<Digits[(n % 10) + 1]>>

\* The year, month and day of the day that lies z days after 1970-01-01
\* (proleptic Gregorian calendar, as datetime computes it).
civil_from_days(z) ==
    LET zz  == z + 719468
        era == zz \div 146097
        doe == zz - era * 146097
        yoe == (doe - doe \div 1460 + doe \div 36524 - doe \div 146096) \div 365
        doy == doe - (365 * yoe + yoe \div 4 - yoe \div 100)
        mp  == (5 * doy + 2) \div 153
        mon == IF mp < 10 THEN mp + 3 ELSE mp - 9
    IN  [year  |-> yoe + era * 400 + (IF mon <= 2 THEN 1 ELSE 0),
         month |-> mon,
         day   |-> doy - (153 * mp + 2) \div 5 + 1]

\* datetime.now(TZ) at the clock reading t, in the zone of config.TZ
local_date(t) == civil_from_days((t + TZ_OFFSET) \div DAY)
local_second(t) == (t + TZ_OFFSET) % DAY

\* now.strftime("%Y-%m-%d")
date_folder(t) ==
    Padded(local_date(t).year, 4) \o <<"-">> \o Padded(local_date(t).month, 2)
        \o <<"-">> \o Padded(local_date(t).day, 2)

\* now.strftime("%Y%m%d")
date_compact(t) ==
    Padded(local_date(t).year, 4) \o Padded(local_date(t).month, 2) \o Padded(local_date(t).day, 2)

\* now.strftime("%H%M%S")
time_compact(t) ==
    Padded(local_second(t) \div 3600, 2) \o Padded((local_second(t) % 3600) \div 60, 2)
        \o Padded(local_second(t) % 60, 2)

\* guess_extension (nextcloud.py:48-51)
guess_extension(message_type) ==
    CASE message_type = "image" -> <<".", "j", "p", "g">>
      [] message_type = "video" -> <<".", "m", "p", "4">>
      [] message_type = "audio" -> <<".", "m", "4", "a">>
      [] message_type = "link"  -> <<".", "t", "x", "t">>
      [] OTHER -> <<>>

\* _TYPE_SUBFOLDER with a folder of its own for audio
TYPE_SUBFOLDER_audio(message_type) ==
    CASE message_type = "image" -> <<"i", "m", "a", "g", "e">>
      [] message_type = "video" -> <<"v", "i", "d", "e", "o">>
      [] message_type = "link"  -> <<"l", "i", "n", "k">>
      [] message_type = "audio" -> <<"a", "u", "d", "i", "o">>
      [] OTHER -> <<"f", "i", "l", "e", "s">>

\* _TYPE_SUBFOLDER.get(message_type, "files") (nextcloud.py:55, 92)
TYPE_SUBFOLDER(message_type) ==
    CASE message_type = "image" -> <<"i", "m", "a", "g", "e">>
      [] message_type = "video" -> <<"v", "i", "d", "e", "o">>
      [] message_type = "link"  -> <<"l", "i", "n", "k">>
      [] OTHER -> <<"f", "i", "l", "e", "s">>

\* The prefix of a generated filename (nextcloud.py:88)
name_prefix(message_type) ==
    CASE message_type = "image" -> <<"i", "m", "g">>
      [] message_type = "video" -> <<"v", "i", "d">>
      [] message_type = "audio" -> <<"a", "u", "d">>
      [] message_type = "link"  -> <<"l", "i", "n", "k">>
      [] OTHER -> <<"f", "i", "l", "e">>

\* config.NEXTCLOUD_BASE_PATH, left unset
NEXTCLOUD_BASE_PATH == <<>>
LINE_Backup == <<"L", "I", "N", "E", "_", "B", "a", "c", "k", "u", "p">>

\* ext of lines 78-80
extension(suggested_name, message_type) ==
    IF guess_extension(message_type) = <<>> /\ suggested_name # <<>>
    THEN PathSuffix(suggested_name)
    ELSE guess_extension(message_type)

\* safe_name of lines 81-89
safe_name(suggested_name, message_type, link_title, t, ms) ==
    LET ext   == extension(suggested_name, message_type)
        stamp == date_compact(t) \o <<"_">> \o time_compact(t) \o <<"_">> \o Padded(ms, 3) \o ext
    IN  IF message_type = "file"
        THEN safe_file_stem(suggested_name, STEM_MAX_LEN) \o ext
        ELSE IF message_type = "link" /\ link_title # <<>>
        THEN LET safe == safe_link_title(link_title, TITLE_MAX_LEN)
                 named == <<"l", "i", "n", "k", "_">> \o stamp
             IN  IF safe # <<>> THEN <<"[">> \o safe \o <<"]", " ">> \o named ELSE named
        ELSE name_prefix(message_type) \o <<"_">> \o stamp

\* remote_path of lines 90-95
remote_path_of(suggested_name, message_type, source_folder, link_title, t, ms) ==
    LET base        == strip(Or(NEXTCLOUD_BASE_PATH, LINE_Backup), {"/"})
        source_safe == Or(safe_folder_name(source_folder), Other)
    IN  base \o <<"/">> \o source_safe \o <<"/">> \o date_folder(t) \o <<"/">>
             \o TYPE_SUBFOLDER(message_type) \o <<"/">>
             \o safe_name(suggested_name, message_type, link_title, t, ms)

Report_PDF == <<"R", "e", "p", "o", "r", "t", ".", "P", "D", "F">>
Amigo == <<"A", "m", "i", "g", "o">>
SuggestedNames == {<<>>, Report_PDF, <<"a", ".", "b", ".", "c">>, <<"m", "y", " ", "?", ".", "m", "4", "a">>, <<"n", "o", "t", "e">>}
MessageTypes == {"image", "video", "audio", "file", "link"}
SourceFolders == {<<>>, Amigo, <<"m", "y", " ", "/", "x">>}
LinkTitles == {<<>>, <<"A", " ", "p", "a", "g", "e", "!">>}
Millis == {0, 45}
\* Clock readings around the local day 2024-03-01: its last second before,
\* its first second, 08:00 (midnight UTC), its last second, the next day.
PathTimes == {1709222399, 1709222400, 1709251200, 1709308799, 1709308800}

\* The path computation of _upload_to_nextcloud_async (lines 73-95), for
\* one upload.
BuildPath(suggested_name, message_type, source_folder, link_title, ms) ==
    /\ path_in = NoPath
    /\ path_in' = [name |-> suggested_name, type |-> message_type, folder |-> source_folder,
                   title |-> link_title, ms |-> ms, at |-> now]
    /\ remote_path' = remote_path_of(suggested_name, message_type, source_folder, link_title, now, ms)
    /\ UNCHANGED <<san_name, san_fn, san_once, san_twice>>
    /\ UNCHANGED <<gateVars, hashVars, idsVars, uploadVars, authVars, webVars, statsVars, notesVars, sourceVars, sessionVars, now, disk_ok, clientVars>>

InitPath ==
    /\ InitGate
    /\ InitHashes
    /\ InitIds
    /\ InitWeb
    /\ InitStats
    /\ InitNotes
    /\ InitSource
    /\ InitSession
    /\ InitNames
    /\ InitUpload
    /\ InitClient
    /\ InitAuth
    /\ now \in PathTimes
    /\ config = DefaultConfig
    /\ disk_ok = TRUE

NextPath ==
    \E suggested_name \in SuggestedNames, message_type \in MessageTypes,
       source_folder \in SourceFolders, link_title \in LinkTitles, ms \in Millis :
        BuildPath(suggested_name, message_type, source_folder, link_title, ms)

SpecPath == InitPath /\ [][NextPath]_vars

(***************************************************************************)
(* Claims about the remote path.                                           *)
(***************************************************************************)
RECURSIVE Number(_)
\* The number a text of digits writes.
Number(s) ==
    IF s = <<>> THEN 0
    ELSE 10 * Number(SubSeq(s, 1, Len(s) - 1))
            + (CHOOSE d \in 0..9 : Digits[d + 1] = s[Len(s)])

\* The days from 1970-01-01 to the day y-m-d.
days_from_civil(y, m, d) ==
    LET yy  == IF m <= 2 THEN y - 1 ELSE y
        era == yy \div 400
        yoe == yy - era * 400
        doy == (153 * (IF m > 2 THEN m - 3 ELSE m + 9) + 2) \div 5 + d - 1
        doe == yoe * 365 + yoe \div 4 - yoe \div 100 + doy
    IN  era * 146097 + doe - 719468

\* C28: the remote path of an upload has the five parts base, sanitized
\* source folder, local date as YYYY-MM-DD, type subfolder and filename;
\* image, video and link have subfolders of their names, audio and file go
\* to files; the filename of a file is the sanitized stem of the suggested
\* name followed by that name's extension; "Report.PDF" from "Amigo" on
\* 2024-03-01 is stored as LINE_Backup/Amigo/2024-03-01/files/Report.PDF.
C28_RemotePathLayout ==
    path_in.type # "none" =>
        LET parts  == Components(remote_path)
            folder == path_in.folder
            date   == parts[3]
        IN  /\ Len(parts) = 5
            /\ parts[1] = LINE_Backup
            /\ IF folder = <<>>
               THEN parts[2] = <<"o", "t", "h", "e", "r">>
               ELSE /\ Len(parts[2]) = Len(folder)
                    /\ \A i \in 1..Len(folder) :
                           parts[2][i] = IF folder[i] \in {" ", ".", "?", "/"} THEN "_" ELSE folder[i]
            /\ Len(date) = 10 /\ date[5] = "-" /\ date[8] = "-"
            /\ Number(SubSeq(date, 6, 7)) \in 1..12
            /\ Number(SubSeq(date, 9, 10)) \in 1..31
            /\ days_from_civil(Number(SubSeq(date, 1, 4)), Number(SubSeq(date, 6, 7)),
                               Number(SubSeq(date, 9, 10))) = (path_in.at + TZ_OFFSET) \div DAY
            /\ parts[4] = CASE path_in.type = "image" -> <<"i", "m", "a", "g", "e">>
                            [] path_in.type = "video" -> <<"v", "i", "d", "e", "o">>
                            [] path_in.type = "link"  -> <<"l", "i", "n", "k">>
                            [] path_in.type \in {"audio", "file"} -> <<"f", "i", "l", "e", "s">>
            /\ path_in.type = "file" =>
                   parts[5] = safe_file_stem(path_in.name, STEM_MAX_LEN) \o PathSuffix(path_in.name)
            /\ (path_in.type = "file" /\ path_in.name = Report_PDF /\ folder = Amigo
                    /\ path_in.at \in {1709222400, 1709251200, 1709308799}) =>
                   remote_path = LINE_Backup \o <<"/">> \o Amigo
                                   \o <<"/", "2", "0", "2", "4", "-", "0", "3", "-", "0", "1", "/">>
                                   \o <<"f", "i", "l", "e", "s", "/">> \o Report_PDF

C28_Witness ==
    /\ path_in.type = "file" /\ path_in.name = Report_PDF /\ path_in.folder = Amigo
    /\ path_in.at = 1709251200
    /\ remote_path = LINE_Backup \o <<"/">> \o Amigo
                       \o <<"/", "2", "0", "2", "4", "-", "0", "3", "-", "0", "1", "/">>
                       \o <<"f", "i", "l", "e", "s", "/">> \o Report_PDF

(***************************************************************************)
(* The client identity of a login request: auth.py lines 63-70.  A header  *)
(* value is a sequence of its pieces: a space, a comma or an address.      *)
(***************************************************************************)
Present(v) == [present |-> TRUE, value |-> v]

RECURSIVE Joined(_)
\* The text a sequence of pieces writes.
Joined(pieces) == IF pieces = <<>> THEN "" ELSE Head(pieces) \o Joined(Tail(pieces))

\* forwarded.split(",")[0]
FirstEntry(h) ==
    LET commas == {i \in 1..Len(h) : h[i] = ","}
    IN  IF commas = {} THEN h
        ELSE SubSeq(h, 1, (CHOOSE i \in commas : \A j \in commas : i <= j) - 1)

\* client_ip preferring the peer address
client_ip_peer_first(req) ==
    IF req.peer.present THEN Joined(req.peer.value)
    ELSE IF req.forwarded.present /\ req.forwarded.value # <<>>
    THEN Joined(strip(FirstEntry(req.forwarded.value), {" "}))
    ELSE "unknown"

\* client_ip (auth.py:63-70)
client_ip(req) ==
    IF req.forwarded.present /\ req.forwarded.value # <<>>
    THEN Joined(strip(FirstEntry(req.forwarded.value), {" "}))
    ELSE IF req.peer.present THEN Joined(req.peer.value)
    ELSE "unknown"

ForwardedValues ==
    {Absent, Present(<<>>), Present(<<" ", "1.2.3.4", " ", ",", "5.6.7.8">>)}
PeerValues == {Absent, Present(<<"5.6.7.8">>)}
Identities == Clients \cup {"unknown"}

\* POST /admin/login of a request with these headers and this peer.
LoginRequest(forwarded, peer, password) ==
    /\ last_request' = [forwarded |-> forwarded, peer |-> peer, seen |-> TRUE]
    /\ AdminLogin(client_ip([forwarded |-> forwarded, peer |-> peer]), password)

InitClientSpec ==
    /\ InitGate
    /\ InitHashes
    /\ InitIds
    /\ InitWeb
    /\ InitStats
    /\ InitNotes
    /\ InitSource
    /\ InitSession
    /\ InitNames
    /\ InitUpload
    /\ InitClient
    /\ _login_rate_limit = EmptyMap
    /\ rate_limit_loaded = FALSE
    /\ rate_limit_file = Missing
    /\ last_login = NoLogin
    /\ lock_start = [ip \in Identities |-> -1]
    /\ consecutive = [ip \in Identities |-> 0]
    /\ now = 0
    /\ config = DefaultConfig
    /\ disk_ok = TRUE

NextClient ==
    \E forwarded \in ForwardedValues, peer \in PeerValues, password \in {"wrong", ADMIN_PASSWORD} :
        LoginRequest(forwarded, peer, password)

SpecClient == InitClientSpec /\ [][NextClient]_vars

(***************************************************************************)
(* Claims about the client identity.                                       *)
(***************************************************************************)
\* C32 as stated: whenever the X-Forwarded-For header is present, the
\* identity is its first entry, trimmed.
C32_ForwardedWhenPresent ==
    (last_request.seen /\ last_request.forwarded.present) =>
        last_login.ip = Joined(SelectSeq(FirstEntry(last_request.forwarded.value),
                                         LAMBDA c : c # " "))

\* C32: the identity is the trimmed first entry of a non-empty
\* X-Forwarded-For header, else the peer address, else "unknown"; the one
\* record of an identity counts the failures of all requests resolving to it.
C32_ClientIdentity ==
    last_request.seen =>
        LET h == last_request.forwarded
            p == last_request.peer
        IN  /\ last_login.ip =
                 IF h.present /\ h.value # <<>>
                 THEN Joined(SelectSeq(FirstEntry(h.value), LAMBDA c : c # " "))
                 ELSE IF p.present THEN p.value[1]
                 ELSE "unknown"
            /\ DOMAIN _login_rate_limit \subseteq Identities
            /\ \A id \in DOMAIN _login_rate_limit :
                   _login_rate_limit[id].failed = Min(consecutive[id], LOGIN_MAX_FAILED)

C32_Witness ==
    /\ last_request = [forwarded |-> Present(<<" ", "1.2.3.4", " ", ",", "5.6.7.8">>),
                       peer |-> Present(<<"5.6.7.8">>), seen |-> TRUE]
    /\ last_login.ip = "1.2.3.4"
    /\ RecordOf(_login_rate_limit, "1.2.3.4").failed = 2
    /\ RecordOf(_login_rate_limit, "unknown").failed = 1

(***************************************************************************)
(* Claims about the backoff and the result of an upload.                   *)
(***************************************************************************)
\* C33: the sleep after failed attempt k (k = 1, 2) is 1.5 * k seconds, and
\* there is no sleep after the third failed attempt (sleeps are in tenths
\* of a second).
C33_LinearBackoff ==
    /\ Len(sleep_log) = (IF Len(err_log) <= 2 THEN Len(err_log) ELSE 2)
    /\ \A k \in DOMAIN sleep_log : sleep_log[k] = 15 * k
    /\ up_pc = "raised" => sleep_log = <<15, 30>>

\* Three attempts have failed: two sleeps, 1.5 s and 3.0 s, and the call
\* has raised.
C33_Witness ==
    /\ up_pc = "raised"
    /\ Len(err_log) = 3
    /\ sleep_log = <<15, 30>>

\* C34: the call returns the remote path exactly when the attempt under way
\* has had its four folder creations answered 201, 204 or 405 and its PUT
\* answered 200, 201 or 204; that PUT is the last request sent, at most two
\* attempts failed before it; the call raises exactly when three attempts
\* have failed.
C34_ReturnsIffAttemptSucceeds ==
    LET done == /\ Len(sent) = 5
                /\ \A i \in 1..4 : sent[i].part = i /\ sent[i].status \in {201, 204, 405}
                /\ sent[5].part = 5 /\ sent[5].status \in {200, 201, 204}
    IN  /\ up_pc \in {"idle", "request", "returned", "raised"}
        /\ (up_pc = "returned") <=> done
        /\ up_pc = "returned" =>
              /\ up_result = [returned |-> "remote_path"]
              /\ Len(err_log) <= 2
              /\ req_log <= 3 * 5
        /\ (up_pc = "raised") <=> (Len(err_log) = 3)
        /\ up_pc = "raised" => up_result = [raised |-> err_log[3]]

\* The third attempt succeeded after two failed ones, with a folder that
\* existed already.
C34_Witness ==
    /\ up_pc = "returned"
    /\ Len(err_log) = 2
    /\ sent[1].status = 405
    /\ sent[5].status = 200

(***************************************************************************)
(* hash_store.py on its own, with a snapshot file that can or cannot be    *)
(* written.                                                                *)
(***************************************************************************)
InitHash ==
    /\ InitGate
    /\ InitIds
    /\ InitWeb
    /\ InitStats
    /\ InitNotes
    /\ InitSource
    /\ InitSession
    /\ InitNames
    /\ InitClient
    /\ InitUpload
    /\ InitAuth
    /\ now = 0
    /\ config = DefaultConfig
    /\ disk_ok \in BOOLEAN
    /\ _hashes = {} /\ hashes_loaded = FALSE
    /\ hashes_order = <<>>
    /\ hashes_file \in {Missing, Corrupt, Holding(<<"h3", "h2", "h1">>)}

NextHash ==
    \/ \E h \in Digests : HashContains(h)
    \/ \E h \in Digests : HashAdd(h)

SpecHash == InitHash /\ [][NextHash]_vars

(***************************************************************************)
(* Claims about the persistence of the hash store.                         *)
(***************************************************************************)
\* C35: when add returns and the snapshot file can be written, the file
\* holds exactly the hashes of the in-memory set, each once.
C35_FileEqualsSetAfterAdd ==
    [][((\E h \in Digests : HashAdd(h)) /\ disk_ok) =>
          /\ hashes_file'.kind = "data"
          /\ Range(hashes_file'.data) = _hashes'
          /\ Len(hashes_file'.data) = Cardinality(_hashes')]_vars

\* An add at capacity has evicted a hash and the file holds the two kept.
C35_Witness ==
    /\ disk_ok
    /\ hashes_loaded
    /\ Len(hashes_order) = 3
    /\ Cardinality(_hashes) = _MAX_HASHES
    /\ hashes_file.kind = "data"
    /\ Range(hashes_file.data) = _hashes

(***************************************************************************)
(* Claims about what a failed handling leaves behind.                      *)
(***************************************************************************)
\* C36: from the moment its ID is marked, and after it has ended in any
\* way, a failure included, the ID of a handling is in the seen-ID set; a
\* redelivery of the ID of a failed handling finds it there and, being
\* dropped at the gate, downloads and uploads nothing.
C36_FailureKeepsIdMarked ==
    /\ [](\A w \in {"w1"} :
            (PastGate(w) \/ (pc[w] = "idle" /\ outcome[w] \notin {"none", "dropped"}))
                => event[w].id \in _processed_message_ids)
    /\ [][\A u \in Users :
            (pc["w1"] = "idle" /\ outcome["w1"] \in {"failed", "raised"}
                /\ Deliver("w1", event["w1"].id, u)) => dup'["w1"]]_vars
    /\ [](\A w \in {"w1"} : (dup[w] /\ pc[w] = "idle") => (eff[w].dl = 0 /\ eff[w].up = 0))

\* A handling whose upload was tried and failed has ended, its ID marked.
C36_Witness ==
    /\ pc["w1"] = "idle"
    /\ outcome["w1"] = "failed"
    /\ eff["w1"].up = 1
    /\ event["w1"].id \in _processed_message_ids

\* C37: the hash store is written and a backup is counted only in the step
\* that follows a returned upload call, the one upload call of the
\* handling; a handling that was dropped at the gate, or as empty,
\* oversized or duplicate content, or whose upload failed, leaves the hash
\* store and the count as they were.
C37_RecordOnlyAfterUpload ==
    /\ [](pc["w1"] = "record" => (eff["w1"].up = 1 /\ eff["w1"].stat = 0))
    /\ [](eff["w1"].stat <= eff["w1"].up /\ eff["w1"].stat <= 1)
    /\ [][(\/ _hashes' # _hashes
           \/ hashes_file' # hashes_file
           \/ hashes_order' # hashes_order
           \/ eff'["w1"].stat > eff["w1"].stat) => pc["w1"] = "record"]_vars
    /\ []((pc["w1"] = "idle" /\ outcome["w1"] \in {"dropped", "empty", "oversize", "duplicate"})
             => (eff["w1"].stat = 0 /\ eff["w1"].up = 0))
    /\ [][(pc["w1"] = "upload" /\ pc'["w1"] = "except") =>
             (UNCHANGED hashVars /\ eff'["w1"].stat = 0)]_vars

\* A handling has uploaded its item, recorded the digest and counted it.
C37_Witness ==
    /\ pc["w1"] = "idle" /\ outcome["w1"] = "ok"
    /\ eff["w1"].up = 1 /\ eff["w1"].stat = 1 /\ eff["w1"].hash = 2
    /\ tmp["w1"].digest \in _hashes

(***************************************************************************)
(* Claims about the capacity of the handlers' seen-ID set.                 *)
(***************************************************************************)
\* C38: the seen-ID set never holds more than _MAX_PROCESSED_IDS IDs; a new
\* ID that arrives at a full set, of a media or of a link message, empties
\* the whole set and is then its only member; below the capacity a new ID
\* is added and none is removed.
C38_FullSetEmptiedForNewId ==
    /\ [](Cardinality(_processed_message_ids) <= _MAX_PROCESSED_IDS)
    /\ [][(pc["w1"] = "evict" /\ pc'["w1"] = "mark"
              /\ Cardinality(_processed_message_ids) >= _MAX_PROCESSED_IDS)
             => _processed_message_ids' = {}]_vars
    /\ [][(pc["w1"] = "mark" /\ pc'["w1"] = "reply")
             => _processed_message_ids' = _processed_message_ids \cup {event["w1"].id}]_vars
    /\ []((pc["w1"] = "mark" /\ Cardinality(_processed_message_ids) > 0)
             => Cardinality(_processed_message_ids) < _MAX_PROCESSED_IDS)
    /\ [][(pc["w1"] = "idle" /\ pc'["w1"] = "idle"
              /\ _processed_message_ids' # _processed_message_ids) =>
             \E m \in LinkIds \ _processed_message_ids :
                 _processed_message_ids' =
                     IF Cardinality(_processed_message_ids) >= _MAX_PROCESSED_IDS
                     THEN {m} ELSE _processed_message_ids \cup {m}]_vars

\* A media ID arrived at a full set and is now the only ID of the set.
C38_Witness ==
    /\ cleared
    /\ pc["w1"] = "reply"
    /\ "m3" \notin _processed_message_ids
    /\ _processed_message_ids = {event["w1"].id}

(***************************************************************************)
(* Claims about the temporary file of a download.                          *)
(***************************************************************************)
\* C39: when the media handler has returned, in whatever way, the temporary
\* file of its download does not exist.
C39_NoTempFileLeft ==
    \A w \in Workers : pc[w] = "idle" => ~tmp[w].exists

(***************************************************************************)
(* Claims about the independence of the rate-limit records.                *)
(***************************************************************************)
\* C40: a login attempt, failed or successful, by one client identity leaves
\* the record of every other client as it was: the same presence in the map,
\* the same failed count and the same locked_until.
C40_OtherRecordsUntouched ==
    [][\A ip \in Clients :
         (\E password \in Passwords : AdminLoginPost(ip, password)) =>
             \A other \in Clients \ {ip} :
                 /\ (other \in DOMAIN _login_rate_limit') = (other \in DOMAIN _login_rate_limit)
                 /\ RecordOf(_login_rate_limit', other).failed
                        = RecordOf(_login_rate_limit, other).failed
                 /\ RecordOf(_login_rate_limit', other).locked_until
                        = RecordOf(_login_rate_limit, other).locked_until]_vars

\* One client has just logged in after failures of its own, and its record is
\* gone, while another client is still locked.
C40_Witness ==
    \E ip \in Clients, other \in Clients :
        /\ ip # other
        /\ last_login.ip = ip
        /\ last_login.kind = "accepted"
        /\ last_login.before.failed > 0
        /\ ip \notin DOMAIN _login_rate_limit
        /\ RecordOf(_login_rate_limit, other).locked_until > now

====
